---- MODULE Spec2Model ----
(***************************************************************************)
(* Model of the streaming relay of the proxy: SSEWriter (the client-facing *)
(* sink over a node:http ServerResponse) and streamProviderResponse (one   *)
(* upstream call whose SSE body is drained, parsed line by line and        *)
(* forwarded to the sink).                                                 *)
(*                                                                         *)
(* A text is the sequence of its pieces: a newline, a digit, or one of the *)
(* fixed words of the protocol ("data:", " ", "[DONE]", ...).  The         *)
(* JavaScript string is the concatenation of the pieces, a network read    *)
(* cuts the upstream body between two pieces, and split('\n'), startsWith  *)
(* and slice act piece by piece.                                           *)
(*                                                                         *)
(* One action is the code that runs between two awaits: the event loop     *)
(* runs nothing else in between.  The client's disconnect (the response's  *)
(* 'close' event) and a transport that starts rejecting writes are events  *)
(* of the environment that happen at the awaits.  The callbacks are        *)
(* observers that return normally.                                         *)
(***************************************************************************)
EXTENDS Integers, Sequences, FiniteSets, TLC

\* Most calls made on a sink used on its own.
MaxOps == 3
\* Longest history given to classifyComplexity.
MaxMessages == 2
\* Most messages serialized by one sink.
MaxWrites == 1
\* Longest upstream body, in lines.
MaxLines == 3
\* Latest reading of Date.now() (startTime is 0).
MaxClock == 1
MaxChunks == 3
MaxIds == 3
MaxAtoms == 2

VARIABLES
    pc,         \* where the relay call is: "fetch", "read" (both awaiting), "returned"
    exit,       \* the return statement taken: "" while running
    ret,        \* <<>> while running, <<the returned object>> afterwards
    upstream,   \* the whole text the provider's body delivers
    pos,        \* how many characters of upstream the reads have returned
    buffer,     \* streamProviderResponse: buffer
    chunks,     \* streamProviderResponse: chunks
    ttftMs,     \* streamProviderResponse: ttftMs, <<>> for undefined
    startTime,  \* streamProviderResponse: startTime
    now,        \* Date.now()
    closed,     \* SSEWriter.closed
    broken,     \* the transport throws on write
    wire,       \* the payloads response.write accepted, in order
    ended,      \* how many times response.end() was called
    log,        \* the calls made on the sink and on the callbacks, in order
    timer,      \* startKeepAlive: timer; "unset" before the call, then "active"
                \* until clearInterval makes it "cleared"
    messages,   \* classifyComplexity: messages
    bodyTools,  \* classifyComplexity: bodyTools
    system,     \* classifyComplexity: system
    complexity, \* what classifyComplexity returned, "unset" before the call
    received,   \* aggregateStreamingResponse: chunks
    next,       \* aggregateStreamingResponse: the chunk the for-of loop takes next
    running,    \* aggregateStreamingResponse: content, usage, model, finish_reason
    outcome,    \* aggregateStreamingResponse: "idle", "looping", "returned", or
                \* the name of the error thrown
    configFile, \* ~/.relayplane/config.json: missing, corrupt, or valid with
                \* the object it holds
    generated,  \* how many device IDs generateDeviceId has drawn
    returned,   \* the last call on the configuration and what it returned
    optIn,      \* "never", or the later of enableTelemetry ("enabled") and
                \* disableTelemetry ("disabled")
    deviceIds,  \* what getDeviceId has returned since the file was last
                \* deleted or corrupted
    offline,    \* telemetry's offline flag (setOfflineMode / isOfflineMode)
    envKey,     \* process.env.RELAYPLANE_API_KEY: absent, or a key
    brainPc,    \* getBrainRouting: "idle", at the await of "fetch", at the
                \* await of response.json() ("json"), or "settled"
    currentModel, \* getBrainRouting's argument
    brainTimer, \* the abort timer: "unset", "armed", "cleared" or "fired"
    reply,      \* the response fetch resolved with
    routing,    \* what the promise of getBrainRouting settled with
    meshPc,     \* initMesh: "idle", "loading" (in loadMeshModules),
                \* "initializing" (at the try block), or how it settled:
                \* "disabled", "unavailable", "failed", "ready", "rejected"
    meshConfig, \* initMesh's argument: enabled, contribute
    imported,   \* how many of the three mesh packages are imported
    meshAvailable, \* the module's meshAvailable flag
    store,      \* the AtomStore: "none", "open" or "closed"
    atoms,      \* how many atoms the store holds
    injector,   \* the ContextInjector: "none", "running" or "stopped"
    autoSync,   \* the auto-sync: "none", "running" or "stopped"
    handle,     \* the handle initMesh resolved with: "none", "noop", "working"
    meshReturned \* the last call on the handle and what it returned

vars == <<pc, exit, ret, upstream, pos, buffer, chunks, ttftMs, startTime, now,
          closed, broken, wire, ended, log, timer,
          messages, bodyTools, system, complexity,
          received, next, running, outcome,
          configFile, generated, returned, optIn, deviceIds,
          offline, envKey, brainPc, currentModel, brainTimer, reply, routing,
          meshPc, meshConfig, imported, meshAvailable, store, atoms, injector,
          autoSync, handle, meshReturned>>

\* The arguments and the result of classifyComplexity
classifierVars == <<messages, bodyTools, system, complexity>>

\* The argument, the locals and the outcome of aggregateStreamingResponse
aggregatorVars == <<received, next, running, outcome>>

\* The configuration file and the calls on it
configVars == <<configFile, generated, returned, optIn, deviceIds>>

\* The Swarm client: its environment and one call of getBrainRouting
brainVars == <<offline, envKey, brainPc, currentModel, brainTimer, reply, routing>>

\* The mesh layer: one call of initMesh and the handle it returns
meshVars == <<meshPc, meshConfig, imported, meshAvailable, store, atoms, injector,
              autoSync, handle, meshReturned>>

----------------------------------------------------------------------------
(* Strings *)

NL == "\n"
DataPrefix == <<"data:", " ">>
DoneText == <<"[DONE]">>
EventPrefix == <<"event:", " ">>
IdPrefix == <<"id:", " ">>
RetryPrefix == <<"retry:", " ">>
ErrorName == <<"error">>

Last(s) == s[Len(s)]
Front(s) == SubSeq(s, 1, Len(s) - 1)

\* String.prototype.startsWith
StartsWith(s, p) == Len(s) >= Len(p) /\ SubSeq(s, 1, Len(p)) = p

\* String.prototype.slice(k), k counted in pieces
Slice(s, k) == SubSeq(s, k + 1, Len(s))

RECURSIVE IndexOfNL(_, _)
IndexOfNL(s, i) ==
    IF i > Len(s) THEN 0
    ELSE IF s[i] = NL THEN i
    ELSE IndexOfNL(s, i + 1)

\* String.prototype.split('\n'): at least one element, the last one is what
\* follows the last newline.
RECURSIVE Split(_)
Split(s) ==
    LET i == IndexOfNL(s, 1)
    IN  IF i = 0 THEN <<s>>
        ELSE <<SubSeq(s, 1, i - 1)>> \o Split(Slice(s, i))

\* Array.prototype.join('\n')
RECURSIVE Join(_)
Join(lines) ==
    IF lines = <<>> THEN <<>>
    ELSE IF Len(lines) = 1 THEN lines[1]
    ELSE lines[1] \o <<NL>> \o Join(Tail(lines))

----------------------------------------------------------------------------
(* JSON: the values an upstream data line of this model can carry are the  *)
(* non-negative integers and the strings without escapes; the relay itself *)
(* builds the error objects.                                               *)

DigitChars == <<"0", "1", "2", "3", "4", "5", "6", "7", "8", "9">>
IsDigit(c) == \E k \in 1..10 : DigitChars[k] = c
DigitValue(c) == (CHOOSE k \in 1..10 : DigitChars[k] = c) - 1

JSONNumber(n) == [t |-> "number", n |-> n]
JSONString(s) == [t |-> "string", s |-> s]
ErrorObject(message, status) ==
    [t |-> "object", message |-> message, status |-> status]

Quote == "\""

IsNumberText(d) ==
    /\ d # <<>>
    /\ \A i \in 1..Len(d) : IsDigit(d[i])
    /\ (Len(d) > 1 => d[1] # "0")

IsStringText(d) ==
    /\ Len(d) >= 2
    /\ d[1] = Quote /\ d[Len(d)] = Quote
    /\ \A i \in 2..(Len(d) - 1) : d[i] \notin {Quote, "\\", NL}

\* Whether JSON.parse(d) returns (TRUE) or throws a SyntaxError (FALSE).
JSONValid(d) == IsNumberText(d) \/ IsStringText(d)

RECURSIVE NumberValue(_)
NumberValue(d) ==
    IF d = <<>> THEN 0
    ELSE 10 * NumberValue(Front(d)) + DigitValue(Last(d))

\* JSON.parse(d) for a d it accepts
JSONParse(d) ==
    IF IsStringText(d) THEN JSONString(SubSeq(d, 2, Len(d) - 1))
    ELSE JSONNumber(NumberValue(d))

RECURSIVE NumberText(_)
NumberText(n) ==
    IF n < 10 THEN <<DigitChars[n + 1]>>
    ELSE NumberText(n \div 10) \o <<DigitChars[(n % 10) + 1]>>

Quoted(s) == <<Quote>> \o s \o <<Quote>>

\* JSON.stringify of { error: { message, status } }; status <<>> is an
\* absent key.
ErrorObjectText(v) ==
    <<"{">> \o Quoted(ErrorName) \o <<":", "{">>
    \o Quoted(<<"message">>) \o <<":">> \o Quoted(v.message)
    \o (IF v.status = <<>> THEN <<>>
        ELSE <<",">> \o Quoted(<<"status">>) \o <<":">>
             \o NumberText(v.status[1]))
    \o <<"}", "}">>

JSONStringify(v) ==
    CASE v.t = "number" -> NumberText(v.n)
      [] v.t = "string" -> Quoted(v.s)
      [] v.t = "object" -> ErrorObjectText(v)

----------------------------------------------------------------------------
(* The texts the relay writes *)

ProviderReturnedText == <<"Provider returned ">>
NoResponseBodyText == <<"No response body">>
StreamErrorText == <<"Stream error">>
FetchFailedText == <<"fetch failed">>

----------------------------------------------------------------------------
(* The record m threaded through one step of the relay: the part of the    *)
(* state the step changes (chunks, closed, wire, ended, log), the value of *)
(* the last writer.write (ok), and whether the for loop has returned       *)
(* (stop).                                                                 *)

Cur == [chunks |-> chunks, closed |-> closed, wire |-> wire, ended |-> ended,
        log |-> log, ok |-> TRUE, stop |-> FALSE]

Logged(m, entry) == [m EXCEPT !.log = Append(@, entry)]

\* An optional field of an object: Undefined when absent, Some(v) when present.
Undefined == <<>>
Some(v) == <<v>>

\* An SSEMessage { event?, data, id?, retry? }
Message(event, data) == [event |-> event, id |-> Undefined, retry |-> Undefined, data |-> data]
DoneMessage == Message(Undefined, JSONString(DoneText))

\* SSEWriter.write: dataStr
DataStr(data) == IF data.t = "string" THEN data.s ELSE JSONStringify(data)

\* if (message.event), if (message.id): absent and the empty string are falsy
Truthy(field) == field # Undefined /\ field[1] # <<>>

\* SSEWriter.write: the lines array, had retry been tested like event and id
MessageLines_RetryTruthy(msg) ==
    LET dataLines == Split(DataStr(msg.data))
    IN  (IF Truthy(msg.event) THEN <<EventPrefix \o msg.event[1]>> ELSE <<>>)
        \o (IF Truthy(msg.id) THEN <<IdPrefix \o msg.id[1]>> ELSE <<>>)
        \o (IF msg.retry # Undefined /\ msg.retry[1] # 0
            THEN <<RetryPrefix \o NumberText(msg.retry[1])>> ELSE <<>>)
        \o [i \in 1..Len(dataLines) |-> DataPrefix \o dataLines[i]]
        \o << <<>>, <<>> >>

\* SSEWriter.write: the lines array
MessageLines(msg) ==
    LET dataLines == Split(DataStr(msg.data))
    IN  (IF Truthy(msg.event) THEN <<EventPrefix \o msg.event[1]>> ELSE <<>>)
        \o (IF Truthy(msg.id) THEN <<IdPrefix \o msg.id[1]>> ELSE <<>>)
        \o (IF msg.retry # Undefined THEN <<RetryPrefix \o NumberText(msg.retry[1])>> ELSE <<>>)
        \o [i \in 1..Len(dataLines) |-> DataPrefix \o dataLines[i]]
        \o << <<>>, <<>> >>

\* What SSEWriter.write hands to response.write
Frame(msg) == Join(MessageLines(msg))

\* SSEWriter.write, called at `site` of the relay
WriterWrite(m, msg, site) ==
    IF m.closed
    THEN Logged([m EXCEPT !.ok = FALSE],
                [op |-> "write", site |-> site, msg |-> msg, ret |-> FALSE])
    ELSE IF broken
    THEN Logged([m EXCEPT !.closed = TRUE, !.ok = FALSE],
                [op |-> "write", site |-> site, msg |-> msg, ret |-> FALSE])
    ELSE Logged([m EXCEPT !.wire = Append(@, Frame(msg)), !.ok = TRUE],
                [op |-> "write", site |-> site, msg |-> msg, ret |-> TRUE])

\* SSEWriter.writeData
WriterWriteData(m, data, site) == WriterWrite(m, Message(Undefined, data), site)

\* What SSEWriter.comment hands to response.write
CommentFrame(text) == <<":", " ">> \o text \o <<NL, NL>>

\* SSEWriter.comment, had it not looked at closed
WriterComment_NoClosedCheck(m, text) ==
    IF broken
    THEN Logged([m EXCEPT !.closed = TRUE, !.ok = FALSE],
                [op |-> "comment", text |-> text, ret |-> FALSE])
    ELSE Logged([m EXCEPT !.wire = Append(@, CommentFrame(text)), !.ok = TRUE],
                [op |-> "comment", text |-> text, ret |-> TRUE])

\* SSEWriter.comment
WriterComment(m, text) ==
    IF m.closed
    THEN Logged([m EXCEPT !.ok = FALSE], [op |-> "comment", text |-> text, ret |-> FALSE])
    ELSE IF broken
    THEN Logged([m EXCEPT !.closed = TRUE, !.ok = FALSE],
                [op |-> "comment", text |-> text, ret |-> FALSE])
    ELSE Logged([m EXCEPT !.wire = Append(@, CommentFrame(text)), !.ok = TRUE],
                [op |-> "comment", text |-> text, ret |-> TRUE])

\* SSEWriter.isOpen
IsOpen(m) == ~m.closed

\* SSEWriter.close, had it left out response.end()
WriterClose_NoEnd(m) ==
    LET called == Logged(m, [op |-> "close", open |-> ~m.closed])
    IN  IF ~m.closed
        THEN [WriterWrite(called, DoneMessage, "close") EXCEPT !.closed = TRUE]
        ELSE called

\* SSEWriter.close, had it ended the transport whatever closed says
WriterClose_EndsAgain(m) ==
    LET called == Logged(m, [op |-> "close", open |-> ~m.closed])
    IN  [(IF ~m.closed THEN WriterWrite(called, DoneMessage, "close") ELSE called)
            EXCEPT !.ended = @ + 1, !.closed = TRUE]

\* SSEWriter.close
WriterClose(m) ==
    LET called == Logged(m, [op |-> "close", open |-> ~m.closed])
    IN  IF ~m.closed
        THEN [WriterWrite(called, DoneMessage, "close")
                EXCEPT !.ended = @ + 1, !.closed = TRUE]
        ELSE called

\* callbacks?.onChunk?.(parsed), onComplete?.(chunks), onError?.(error)
OnChunk(m, parsed) == Logged(m, [op |-> "onChunk", arg |-> parsed])
OnComplete(m) == Logged(m, [op |-> "onComplete", arg |-> m.chunks])
OnError(m, message) == Logged(m, [op |-> "onError", arg |-> message])

\* writer.comment('ping')
PingText == <<"ping">>

\* clearInterval(timer), called by the timer's callback ("tick") or by the
\* function startKeepAlive returned ("cancel")
ClearInterval(m, by) == Logged(m, [op |-> "clearInterval", by |-> by])

\* The callback startKeepAlive gives to setInterval, had it not asked
\* isOpen
KeepAliveCallback_NoIsOpen(m) == [m |-> WriterComment(m, PingText), clear |-> FALSE]

\* The callback startKeepAlive gives to setInterval: clear says whether it
\* called clearInterval.
KeepAliveCallback(m) ==
    IF ~IsOpen(m)
    THEN [m |-> ClearInterval(m, "tick"), clear |-> TRUE]
    ELSE [m |-> WriterComment(m, PingText), clear |-> FALSE]

----------------------------------------------------------------------------
(* streamProviderResponse *)

\* The try block around JSON.parse, in the for loop and in the flush
Forward(m, data, site) ==
    IF JSONValid(data)
    THEN LET parsed == JSONParse(data)
             pushed == [m EXCEPT !.chunks = Append(@, parsed)]
         IN  WriterWrite(OnChunk(pushed, parsed), Message(Undefined, parsed), site)
    ELSE m

\* The body of the for loop, had it ignored what writer.write returns
ProcessLine_KeepsGoing(m, line) ==
    IF StartsWith(line, DataPrefix)
    THEN LET data == Slice(line, Len(DataPrefix))
         IN  IF data = DoneText THEN m
             ELSE Forward(m, data, "loop")
    ELSE m

\* The body of the for loop, had a malformed payload ended the loop
ProcessLine_AbortsOnMalformed(m, line) ==
    IF StartsWith(line, DataPrefix)
    THEN LET data == Slice(line, Len(DataPrefix))
         IN  IF data = DoneText THEN m
             ELSE LET w == Forward(m, data, "loop")
                  IN  IF ~JSONValid(data) \/ ~w.ok
                      THEN [w EXCEPT !.stop = TRUE]
                      ELSE w
    ELSE m

\* The body of the for loop over the complete lines
ProcessLine(m, line) ==
    IF StartsWith(line, DataPrefix)
    THEN LET data == Slice(line, Len(DataPrefix))
         IN  IF data = DoneText THEN m
             ELSE LET w == Forward(m, data, "loop")
                  IN  IF ~w.ok
                      THEN [w EXCEPT !.stop = TRUE]
                      ELSE w
    ELSE m

\* The for loop, had it taken the lines of a read last to first
RECURSIVE ProcessLines_LastFirst(_, _)
ProcessLines_LastFirst(m, lines) ==
    IF lines = <<>> \/ m.stop THEN m
    ELSE ProcessLines_LastFirst(ProcessLine(m, Last(lines)), Front(lines))

RECURSIVE ProcessLines(_, _)
ProcessLines(m, lines) ==
    IF lines = <<>> \/ m.stop THEN m
    ELSE ProcessLines(ProcessLine(m, Head(lines)), Tail(lines))

\* "Process any remaining buffer"
Flush(m, buf) ==
    IF StartsWith(buf, DataPrefix)
    THEN LET data == Slice(buf, Len(DataPrefix))
         IN  IF data # <<>> /\ data # DoneText
             THEN Forward(m, data, "flush")
             ELSE m
    ELSE m

\* The catch block, had it written no error event
Catch_NoErrorEvent(m, error) == WriterClose(OnError(m, error.message))

\* The catch block; error is what was thrown
Catch(m, error) ==
    LET told == OnError(m, error.message)
        sent == WriterWrite(told,
                    Message(Some(ErrorName),
                            ErrorObject(IF error.isError THEN error.message
                                        ELSE StreamErrorText, <<>>)),
                    "catch")
    IN  WriterClose(sent)

\* The !response.ok branch, had the event left out the status
Rejected_NoStatus(m, status) ==
    LET message == ProviderReturnedText \o NumberText(status)
        told == OnError(m, message)
        sent == WriterWrite(told,
                    Message(Some(ErrorName), ErrorObject(message, <<>>)),
                    "rejected")
    IN  WriterClose(sent)

\* The !response.ok branch
Rejected(m, status) ==
    LET message == ProviderReturnedText \o NumberText(status)
        told == OnError(m, message)
        sent == WriterWrite(told,
                    Message(Some(ErrorName), ErrorObject(message, <<status>>)),
                    "rejected")
    IN  WriterClose(sent)

\* The !response.body branch, had it written an error event as the other
\* failure branches do
NoBody_WithErrorEvent(m) ==
    LET told == OnError(m, NoResponseBodyText)
        sent == WriterWrite(told,
                    Message(Some(ErrorName), ErrorObject(NoResponseBodyText, <<>>)),
                    "nobody")
    IN  WriterClose(sent)

\* The !response.body branch
NoBody(m) == WriterClose(OnError(m, NoResponseBodyText))

\* The code after the read loop, had it not closed the writer
Drained_NoClose(m, buf) == OnComplete(Flush(m, buf))

\* The code after the read loop, had it closed the writer first
Drained_CompleteAfterClose(m, buf) == OnComplete(WriterClose(Flush(m, buf)))

\* The code after the read loop
Drained(m, buf) == WriterClose(OnComplete(Flush(m, buf)))

----------------------------------------------------------------------------
(* What the environment can do *)

\* The lines a provider sends: a chunk, a malformed frame, the terminator,
\* and the blank line that separates SSE events.
LineKinds == {"chunk", "malformed", "done", "blank"}

\* The lines of a provider one of whose chunks is the JSON string "[DONE]".
QuotedLineKinds == {"chunk", "quoted", "done"}

\* The relay never looks into a chunk, so the chunks of a body are numbered
\* in the order the provider sends them: the k-th chunk is the JSON number k.
LineText(kind, ordinal) ==
    CASE kind = "chunk" -> DataPrefix \o NumberText(ordinal)
      [] kind = "malformed" -> DataPrefix \o <<"{">>
      [] kind = "done" -> DataPrefix \o DoneText
      [] kind = "quoted" -> DataPrefix \o Quoted(DoneText)
      [] kind = "blank" -> <<>>

ChunksAmong(f, k) == Cardinality({i \in 1..k : f[i] = "chunk"})

\* The body made of the lines f[1..k], each ended by a newline, the last one
\* only if `terminated`.
RECURSIVE BodyText(_, _, _)
BodyText(f, k, terminated) ==
    IF k = 0 THEN <<>>
    ELSE BodyText(f, k - 1, TRUE) \o LineText(f[k], ChunksAmong(f, k))
         \o (IF terminated THEN <<NL>> ELSE <<>>)

Bodies(kinds) ==
    UNION { { BodyText(f, k, t) : f \in [1..k -> kinds], t \in BOOLEAN }
            : k \in 0..MaxLines }

UpstreamBodies == Bodies(LineKinds)
QuotedBodies == Bodies(QuotedLineKinds)

\* Non-success statuses of the provider
BadStatuses == {429, 500}

\* What a rejected fetch or reader.read() throws: an Error (a TypeError).
NetworkError == [isError |-> TRUE, message |-> FetchFailedText]

\* What the try block can throw: an Error, or a value that is not an Error
\* (String(error) is its message for the callback).
Thrown == { NetworkError, [isError |-> FALSE, message |-> <<"0">>] }

----------------------------------------------------------------------------
(* Actions *)

\* The relay is about to fetch, the sink is freshly constructed, no timer.
InitRelay ==
    /\ pc = "fetch"
    /\ exit = ""
    /\ ret = <<>>
    /\ upstream = <<>>
    /\ pos = 0
    /\ buffer = <<>>
    /\ chunks = <<>>
    /\ ttftMs = <<>>
    /\ startTime = 0
    /\ now = 0
    /\ closed = FALSE
    /\ broken = FALSE
    /\ wire = <<>>
    /\ ended = 0
    /\ log = <<>>
    /\ timer = "unset"

\* No call of classifyComplexity, none of aggregateStreamingResponse
NoClassifierCall ==
    /\ messages = <<>>
    /\ bodyTools = <<>>
    /\ system = <<>>
    /\ complexity = "unset"
NoAggregatorCall ==
    /\ received = <<>>
    /\ next = 1
    /\ running = <<>>
    /\ outcome = "idle"


\* {}: a configuration object without any property
NoConfig ==
    [ device_id |-> Undefined, telemetry_enabled |-> Undefined,
      first_run_complete |-> Undefined, api_key |-> Undefined, apiKey |-> Undefined,
      config_version |-> Undefined, created_at |-> Undefined, updated_at |-> Undefined ]

\* The file: absent, not parseable as a configuration, or holding `config`
FileMissing == [state |-> "missing", config |-> NoConfig]
FileCorrupt == [state |-> "corrupt", config |-> NoConfig]
FileWith(config) == [state |-> "valid", config |-> config]

\* What a call returned
CallResult(op, value) == [op |-> op, value |-> value]

\* A fresh install on which nothing was called yet
FreshInstall ==
    /\ configFile = FileMissing
    /\ generated = 0
    /\ returned = CallResult("none", Undefined)
    /\ optIn = "never"
    /\ deviceIds = {}

\* No response yet, and no promise settled
\* What response.json() gives: "invalid" (it rejects), "null", or an
\* "object" with the properties it has
JsonBody(json, success, recommendedModel, explanation) ==
    [json |-> json, success |-> success, recommendedModel |-> recommendedModel,
     explanation |-> explanation]
NoResponse == [ok |-> FALSE, body |-> JsonBody("none", FALSE, <<>>, <<>>)]
NoRouting == [state |-> "none", model |-> <<>>, isBrain |-> FALSE, reason |-> ""]

\* The Swarm client at rest: online, no key in the environment, no call
NoBrainCall ==
    /\ offline = FALSE
    /\ envKey = Undefined
    /\ brainPc = "idle"
    /\ currentModel = ""
    /\ brainTimer = "unset"
    /\ reply = NoResponse
    /\ routing = NoRouting

\* What a call on a handle returned: the tips of getTips, the result of
\* sync ("null" or "counts"), the status of getStatus
MeshResult(op, value) == [op |-> op, value |-> value]
NoValue ==
    [tips |-> 0, synced |-> "none", available |-> FALSE, enabled |-> FALSE,
     atomCount |-> 0, contributing |-> FALSE]

\* initMesh was not called
NoStore ==
    /\ imported = 0
    /\ meshAvailable = FALSE
    /\ store = "none"
    /\ atoms = 0
    /\ injector = "none"
    /\ autoSync = "none"
    /\ handle = "none"
    /\ meshReturned = MeshResult("none", NoValue)
NoMeshCall ==
    /\ meshPc = "idle"
    /\ meshConfig = [enabled |-> FALSE, contribute |-> FALSE]
    /\ NoStore

Init ==
    /\ InitRelay
    /\ NoClassifierCall
    /\ NoAggregatorCall
    /\ FreshInstall
    /\ NoBrainCall
    /\ NoMeshCall

\* Time passes while the call is suspended at an await.
Tick ==
    /\ pc \in {"fetch", "read"}
    /\ now < MaxClock
    /\ now' = now + 1
    /\ UNCHANGED <<classifierVars, aggregatorVars, configVars, brainVars, meshVars, timer, pc, exit, ret, upstream, pos, buffer, chunks, ttftMs,
                   startTime, closed, broken, wire, ended, log>>

Commit(m) ==
    /\ chunks' = m.chunks
    /\ closed' = m.closed
    /\ wire' = m.wire
    /\ ended' = m.ended
    /\ log' = m.log

Return(path, m, ttft) ==
    /\ pc' = "returned"
    /\ exit' = path
    /\ ret' = << [success |-> path = "drained", chunks |-> m.chunks, ttftMs |-> ttft] >>

\* response 'close': the client went away.
ClientDisconnects ==
    /\ pc \in {"fetch", "read"}
    /\ ~closed
    /\ closed' = TRUE
    /\ UNCHANGED <<classifierVars, aggregatorVars, configVars, brainVars, meshVars, timer, pc, exit, ret, upstream, pos, buffer, chunks, ttftMs,
                   startTime, now, broken, wire, ended, log>>

\* From now on response.write throws.
TransportBreaks ==
    /\ pc \in {"fetch", "read"}
    /\ ~closed /\ ~broken
    /\ broken' = TRUE
    /\ UNCHANGED <<classifierVars, aggregatorVars, configVars, brainVars, meshVars, timer, pc, exit, ret, upstream, pos, buffer, chunks, ttftMs,
                   startTime, now, closed, wire, ended, log>>

\* await fetch(...) throws
FetchThrows ==
    /\ pc = "fetch"
    /\ \E error \in Thrown :
         LET m == Catch(Cur, error)
         IN  Commit(m) /\ Return("caught", m, ttftMs)
    /\ UNCHANGED <<classifierVars, aggregatorVars, configVars, brainVars, meshVars, timer, upstream, pos, buffer, ttftMs, startTime, now, broken>>

\* !response.ok
FetchRejected ==
    /\ pc = "fetch"
    /\ \E status \in BadStatuses :
         LET m == Rejected(Cur, status)
         IN  Commit(m) /\ Return("rejected", m, <<>>)
    /\ UNCHANGED <<classifierVars, aggregatorVars, configVars, brainVars, meshVars, timer, upstream, pos, buffer, ttftMs, startTime, now, broken>>

\* !response.body
FetchNoBody ==
    /\ pc = "fetch"
    /\ LET m == NoBody(Cur)
       IN  Commit(m) /\ Return("nobody", m, <<>>)
    /\ UNCHANGED <<classifierVars, aggregatorVars, configVars, brainVars, meshVars, timer, upstream, pos, buffer, ttftMs, startTime, now, broken>>

\* The response is ok and has a body: getReader, and the first read is issued.
FetchOkFrom(bodies) ==
    /\ pc = "fetch"
    /\ \E body \in bodies : upstream' = body
    /\ pc' = "read"
    /\ UNCHANGED <<classifierVars, aggregatorVars, configVars, brainVars, meshVars, timer, exit, ret, pos, buffer, chunks, ttftMs, startTime, now,
                   closed, broken, wire, ended, log>>

FetchOk == FetchOkFrom(UpstreamBodies)

\* ttftMs after a read, had every read written it
TtftAfterRead_Overwrites == <<now - startTime>>

\* ttftMs after a read that returned data
TtftAfterRead == IF ttftMs = <<>> THEN <<now - startTime>> ELSE ttftMs

\* What is left in the buffer after a read, had the trailing fragment been
\* thrown away with the lines
Retained_Nothing(lines) == <<>>

\* buffer = lines.pop() ?? '': the trailing, possibly incomplete, fragment
Retained(lines) == Last(lines)

\* reader.read() returns the next n characters: one turn of the while loop.
Read ==
    /\ pc = "read"
    /\ \E n \in 1..(Len(upstream) - pos) :
         LET value == SubSeq(upstream, pos + 1, pos + n)
             lines == Split(buffer \o value)
             m == ProcessLines(Cur, Front(lines))
         IN  /\ pos' = pos + n
             /\ ttftMs' = TtftAfterRead
             /\ buffer' = Retained(lines)
             /\ Commit(m)
             /\ IF m.stop
                THEN Return("disconnected", m, ttftMs')
                ELSE UNCHANGED <<pc, exit, ret>>
    /\ UNCHANGED <<classifierVars, aggregatorVars, configVars, brainVars, meshVars, timer, upstream, startTime, now, broken>>

\* reader.read() returns done: the code after the loop.
ReadDone ==
    /\ pc = "read"
    /\ pos = Len(upstream)
    /\ LET m == Drained(Cur, buffer)
       IN  Commit(m) /\ Return("drained", m, ttftMs)
    /\ UNCHANGED <<classifierVars, aggregatorVars, configVars, brainVars, meshVars, timer, upstream, pos, buffer, ttftMs, startTime, now, broken>>

\* reader.read() throws
ReadThrows ==
    /\ pc = "read"
    /\ LET m == Catch(Cur, NetworkError)
       IN  Commit(m) /\ Return("caught", m, ttftMs)
    /\ UNCHANGED <<classifierVars, aggregatorVars, configVars, brainVars, meshVars, timer, upstream, pos, buffer, ttftMs, startTime, now, broken>>

Next ==
    \/ Tick
    \/ ClientDisconnects
    \/ TransportBreaks
    \/ FetchThrows
    \/ FetchRejected
    \/ FetchNoBody
    \/ FetchOk
    \/ Read
    \/ ReadDone
    \/ ReadThrows

Spec == Init /\ [][Next]_vars

\* The same relay in front of a provider that sends JSON strings.
FetchOkQuoted == FetchOkFrom(QuotedBodies)

NextQuoted ==
    \/ Tick
    \/ ClientDisconnects
    \/ TransportBreaks
    \/ FetchThrows
    \/ FetchRejected
    \/ FetchNoBody
    \/ FetchOkQuoted
    \/ Read
    \/ ReadDone
    \/ ReadThrows

SpecQuoted == Init /\ [][NextQuoted]_vars

\* The same relay in front of a client that stays connected, on a transport
\* that accepts every write, with an upstream that delivers its whole body.
NextAccepting ==
    \/ Tick
    \/ FetchOk
    \/ Read
    \/ ReadDone

SpecAccepting == Init /\ [][NextAccepting]_vars

----------------------------------------------------------------------------
(* The sink used on its own: any caller issuing write, writeData, comment  *)
(* and close, with startKeepAlive's timer running beside it.  One action   *)
(* is one call (or one timer callback) run to completion.                  *)

NoteText == <<"note">>

\* The messages and payloads the callers of this specification write.
CallerMessages ==
    { Message(Undefined, JSONNumber(1)),
      Message(Some(ErrorName), ErrorObject(StreamErrorText, <<>>)) }
CallerPayloads == { JSONNumber(2), JSONString(<<"a", NL, "b">>) }

CommitSink(m) ==
    /\ Commit(m)
    /\ UNCHANGED <<classifierVars, aggregatorVars, configVars, brainVars, meshVars, pc, exit, ret, upstream, pos, buffer, ttftMs, startTime, now, broken>>

\* writer.write(message)
CallWrite ==
    /\ Len(log) < MaxOps
    /\ \E msg \in CallerMessages : CommitSink(WriterWrite(Cur, msg, "caller"))
    /\ UNCHANGED timer

\* writer.writeData(data)
CallWriteData ==
    /\ Len(log) < MaxOps
    /\ \E data \in CallerPayloads : CommitSink(WriterWriteData(Cur, data, "caller"))
    /\ UNCHANGED timer

\* writer.comment(text)
CallComment ==
    /\ Len(log) < MaxOps
    /\ CommitSink(WriterComment(Cur, NoteText))
    /\ UNCHANGED timer

\* writer.close()
CallClose ==
    /\ Len(log) < MaxOps
    /\ CommitSink(WriterClose(Cur))
    /\ UNCHANGED timer

\* response 'close': the handler registered by the constructor runs.
ResponseClosed ==
    /\ ~closed
    /\ closed' = TRUE
    /\ UNCHANGED <<classifierVars, aggregatorVars, configVars, brainVars, meshVars, pc, exit, ret, upstream, pos, buffer, chunks, ttftMs,
                   startTime, now, broken, wire, ended, log, timer>>

\* From now on response.write throws.
WriteStartsThrowing ==
    /\ ~closed /\ ~broken
    /\ broken' = TRUE
    /\ UNCHANGED <<classifierVars, aggregatorVars, configVars, brainVars, meshVars, pc, exit, ret, upstream, pos, buffer, chunks, ttftMs,
                   startTime, now, closed, wire, ended, log, timer>>

\* startKeepAlive(writer): setInterval
StartKeepAlive ==
    /\ timer = "unset"
    /\ timer' = "active"
    /\ UNCHANGED <<classifierVars, aggregatorVars, configVars, brainVars, meshVars, pc, exit, ret, upstream, pos, buffer, chunks, ttftMs,
                   startTime, now, closed, broken, wire, ended, log>>

\* The interval elapses: the callback given to setInterval runs.
KeepAliveTick ==
    /\ timer = "active"
    /\ Len(log) < MaxOps
    /\ LET after == KeepAliveCallback(Cur)
       IN  /\ CommitSink(after.m)
           /\ timer' = IF after.clear THEN "cleared" ELSE timer

\* The function startKeepAlive returned is called: clearInterval(timer).
CancelKeepAlive ==
    /\ timer = "active"
    /\ timer' = "cleared"
    /\ CommitSink(ClearInterval(Cur, "cancel"))

NextWriter ==
    \/ CallWrite
    \/ CallWriteData
    \/ CallComment
    \/ CallClose
    \/ ResponseClosed
    \/ WriteStartsThrowing
    \/ StartKeepAlive
    \/ KeepAliveTick
    \/ CancelKeepAlive

SpecWriter == Init /\ [][NextWriter]_vars

----------------------------------------------------------------------------
(* SSEWriter.write as a function of its message: an open sink serializes   *)
(* any one message.                                                        *)

EventValues == {Undefined, Some(<<>>), Some(ErrorName)}
IdValues == {Undefined, Some(<<>>), Some(<<"7">>)}
RetryValues == {Undefined, Some(0), Some(15)}
DataValues ==
    { JSONString(<<>>), JSONString(<<"a">>), JSONString(<<"a", NL, "b">>),
      JSONString(<<NL, NL>>), JSONNumber(0), JSONNumber(42),
      ErrorObject(StreamErrorText, <<500>>) }
SSEMessages ==
    [event : EventValues, id : IdValues, retry : RetryValues, data : DataValues]

\* writer.write(message), any message
WriteAny ==
    /\ Len(log) < MaxWrites
    /\ \E msg \in SSEMessages : CommitSink(WriterWrite(Cur, msg, "caller"))
    /\ UNCHANGED timer

NextSerialize == WriteAny

SpecSerialize == Init /\ [][NextSerialize]_vars

----------------------------------------------------------------------------
(* classifyComplexity.  A text is again the sequence of its pieces: the    *)
(* words the patterns look for, plain words, white space, and runs of one  *)
(* letter that only add length.  A pattern matches where its words occur   *)
(* as pieces; no two pieces join into a word of a pattern.                 *)

\* The piece that stands for three backticks
Fence == "[fence]"

\* String.prototype.length
PieceLength(piece) ==
    CASE piece = "idot*8000" -> 16000
      [] piece = "x*12000" -> 12000
      [] piece \in {"x*8000", "DottedI*8000"} -> 8000
      [] piece = "x*4" -> 4
      [] piece \in {"calculate", "architect"} -> 9
      [] piece \in {"create a", "refactor"} -> 8
      [] piece \in {"analyze", "ANALYZE"} -> 7
      [] piece \in {"const ", "x = 1;", "review"} -> 6
      [] piece \in {"first", "hello"} -> 5
      [] piece = "then" -> 4
      [] piece = Fence -> 3
      [] piece \in {" ", NL, "x"} -> 1

RECURSIVE StringLength(_)
StringLength(text) ==
    IF text = <<>> THEN 0
    ELSE PieceLength(text[1]) + StringLength(Slice(text, 1))

\* String.prototype.toLowerCase: the lower case of U+0130, the capital I with
\* a dot above ("DottedI*8000" is 8000 of them), is the two code units
\* U+0069 U+0307 ("idot*8000" is 8000 such pairs).
ToLowerCase(text) ==
    [i \in 1..Len(text) |->
        CASE text[i] = "ANALYZE" -> "analyze"
          [] text[i] = "DottedI*8000" -> "idot*8000"
          [] OTHER -> text[i]]

\* String.prototype.trim
IsWhiteSpace(piece) == piece \in {" ", NL}
RECURSIVE Trim(_)
Trim(text) ==
    IF text = <<>> THEN text
    ELSE IF IsWhiteSpace(text[1]) THEN Trim(Slice(text, 1))
    ELSE IF IsWhiteSpace(Last(text)) THEN Trim(Front(text))
    ELSE text

\* Array.prototype.join(' ')
RECURSIVE JoinSpace(_)
JoinSpace(texts) ==
    IF texts = <<>> THEN <<>>
    ELSE IF Len(texts) = 1 THEN texts[1]
    ELSE texts[1] \o <<" ">> \o JoinSpace(Slice(texts, 1))

\* A message's content: a string, an array of blocks, or neither.
StringContent(text) == [t |-> "string", s |-> text, blocks |-> <<>>]
ArrayContent(blocks) == [t |-> "array", s |-> <<>>, blocks |-> blocks]
NoContent == [t |-> "undefined", s |-> <<>>, blocks |-> <<>>]

\* A content block { type, text? }
TextBlock(text) == [type |-> "text", text |-> Some(text)]
Block(type) == [type |-> type, text |-> Undefined]

isContentBlockArray(content) == content.t = "array"

extractSingleMessageText(msg) ==
    IF msg.content.t = "string" THEN msg.content.s
    ELSE IF isContentBlockArray(msg.content)
    THEN LET texts == SelectSeq(msg.content.blocks, LAMBDA c : c.type = "text")
         IN  JoinSpace([i \in 1..Len(texts) |->
                           IF texts[i].text = Undefined THEN <<>> ELSE texts[i].text[1]])
    ELSE <<>>

\* findLastUserText: whether the loop skips the message with `continue`
isOnlyToolResult(msg) ==
    /\ isContentBlockArray(msg.content)
    /\ \A i \in 1..Len(msg.content.blocks) :
          msg.content.blocks[i].type \in {"tool_result", "tool_use"}

\* findLastUserText, had it returned any text of length > 0
RECURSIVE findLastUserText_NoTrim(_)
findLastUserText_NoTrim(msgs) ==
    IF msgs = <<>> THEN <<>>
    ELSE IF isOnlyToolResult(Last(msgs)) THEN findLastUserText_NoTrim(Front(msgs))
    ELSE IF extractSingleMessageText(Last(msgs)) # <<>>
    THEN extractSingleMessageText(Last(msgs))
    ELSE findLastUserText_NoTrim(Front(msgs))

RECURSIVE findLastUserText(_)
findLastUserText(msgs) ==
    IF msgs = <<>> THEN <<>>
    ELSE IF isOnlyToolResult(Last(msgs)) THEN findLastUserText(Front(msgs))
    ELSE IF Trim(extractSingleMessageText(Last(msgs))) # <<>>
    THEN extractSingleMessageText(Last(msgs))
    ELSE findLastUserText(Front(msgs))

\* RegExp.prototype.test for the patterns of classifyComplexity
HasPiece(text, pieces) == \E i \in 1..Len(text) : text[i] \in pieces
FirstThenPattern(text) ==
    \E i, j \in 1..Len(text) :
        /\ i < j
        /\ text[i] = "first" /\ text[j] = "then"
        /\ \A k \in i..j : text[k] # NL

\* Math.ceil(length / 4)
Tokens(length) == (length + 3) \div 4

\* The code-pattern signal, had it been worth 3
CodeSignal_Three(currentText) ==
    IF HasPiece(currentText, {Fence, "const "}) THEN 3 ELSE 0

\* The code-pattern signal, had its patterns carried the g flag: test() then
\* resumes at lastIndex, so the call after a match finds nothing
CodeSignal_GlobalFlag(currentText) ==
    IF HasPiece(currentText, {Fence, "const "}) /\ complexity = "unset" THEN 2 ELSE 0

\* The signals of the current turn
CodeSignal(currentText) ==
    IF HasPiece(currentText, {Fence, "const "}) THEN 2 ELSE 0
AnalyticalWords == {"analyze", "compare", "evaluate", "assess", "review", "audit"}
ComputationWords == {"calculate", "compute", "solve", "equation", "prove", "derive"}
CreativeWords == {"create a", "design a", "build a"}
EngineeringWords == {"refactor", "migrate", "architect", "implement", "integrate"}

\* The keyword signals, had every analytical word counted
KeywordSignals_PerWord(currentText) ==
    Cardinality({i \in 1..Len(currentText) : currentText[i] \in AnalyticalWords})
    + (IF HasPiece(currentText, ComputationWords) THEN 2 ELSE 0)
    + (IF FirstThenPattern(currentText) THEN 1 ELSE 0)
    + (IF HasPiece(currentText, CreativeWords) THEN 1 ELSE 0)
    + (IF HasPiece(currentText, EngineeringWords) THEN 1 ELSE 0)

KeywordSignals(currentText) ==
    (IF HasPiece(currentText, AnalyticalWords) THEN 1 ELSE 0)
    + (IF HasPiece(currentText, ComputationWords) THEN 2 ELSE 0)
    + (IF FirstThenPattern(currentText) THEN 1 ELSE 0)
    + (IF HasPiece(currentText, CreativeWords) THEN 1 ELSE 0)
    + (IF HasPiece(currentText, EngineeringWords) THEN 1 ELSE 0)

\* The length signal, had it been 1 between the thresholds and 0 above them
TokenSignal_Window(currentTokens) ==
    IF currentTokens > 2000 /\ currentTokens <= 5000 THEN 1 ELSE 0

TokenSignal(currentTokens) ==
    (IF currentTokens > 2000 THEN 1 ELSE 0) + (IF currentTokens > 5000 THEN 2 ELSE 0)
CurrentTurnSignals(currentText) ==
    CodeSignal(currentText) + KeywordSignals(currentText)
    + TokenSignal(Tokens(StringLength(currentText)))

\* The signals of the session
HasBlock(msg, types) ==
    /\ isContentBlockArray(msg.content)
    /\ \E i \in 1..Len(msg.content.blocks) : msg.content.blocks[i].type \in types
ToolCount(tools) == IF tools # Undefined /\ tools[1].isArray THEN tools[1].length ELSE 0
\* The tool signals, had the thresholds been "more than 5" and "more than 15"
ToolSignals_Above(msgs, tools) ==
    LET toolCount == ToolCount(tools)
        hasTools == \/ toolCount > 0
                    \/ \E i \in 1..Len(msgs) : HasBlock(msgs[i], {"tool_result", "tool_use"})
    IN  (IF hasTools THEN 2 ELSE 0)
        + (IF toolCount > 5 THEN 1 ELSE 0)
        + (IF toolCount > 15 THEN 1 ELSE 0)

ToolSignals(msgs, tools) ==
    LET toolCount == ToolCount(tools)
        hasTools == \/ toolCount > 0
                    \/ \E i \in 1..Len(msgs) : HasBlock(msgs[i], {"tool_result", "tool_use"})
    IN  (IF hasTools THEN 2 ELSE 0)
        + (IF toolCount >= 5 THEN 1 ELSE 0)
        + (IF toolCount >= 15 THEN 1 ELSE 0)

\* messages.slice(-6)
RecentMessages(msgs) == SubSeq(msgs, IF Len(msgs) > 6 THEN Len(msgs) - 5 ELSE 1, Len(msgs))
\* The recent-activity signal, had it been one point per message
RecentSignal_PerMessage(msgs) ==
    Len(SelectSeq(RecentMessages(msgs), LAMBDA m : HasBlock(m, {"tool_result"})))

RecentSignal(msgs) ==
    LET recentToolResults ==
            Len(SelectSeq(RecentMessages(msgs), LAMBDA m : HasBlock(m, {"tool_result"})))
    IN  IF recentToolResults >= 3 THEN 1 ELSE 0

SystemSignal(sys) ==
    IF sys # Undefined /\ sys[1] # <<>>
    THEN LET systemTokens == Tokens(StringLength(sys[1]))
         IN  (IF systemTokens > 3000 THEN 1 ELSE 0) + (IF systemTokens > 8000 THEN 2 ELSE 0)
    ELSE 0

Score(msgs, tools, sys) ==
    CurrentTurnSignals(ToLowerCase(findLastUserText(msgs)))
    + ToolSignals(msgs, tools) + RecentSignal(msgs) + SystemSignal(sys)

\* The tiers, had a score of 2 been moderate and 3 complex
TierOf_OneLower(score) ==
    IF score >= 4 THEN "complex" ELSE IF score >= 2 THEN "moderate" ELSE "simple"

TierOf(score) ==
    IF score >= 5 THEN "complex" ELSE IF score >= 3 THEN "moderate" ELSE "simple"

classifyComplexity(msgs, tools, sys) == TierOf(Score(msgs, tools, sys))

----------------------------------------------------------------------------
(* The calls of classifyComplexity *)

\* A message { role, content }; classifyComplexity never reads the role.
TextMessage(text) == [role |-> "user", content |-> StringContent(text)]
BlockMessage(blocks) == [role |-> "user", content |-> ArrayContent(blocks)]
AssistantMessage(text) == [role |-> "assistant", content |-> StringContent(text)]

FencedCode == <<Fence, NL, "const ", "x = 1;", NL, Fence>>

Texts ==
    { <<"hello">>, <<" ">>, FencedCode, <<"calculate">>,
      <<"first", " ", "ANALYZE", " ", "then", " ", "refactor">>,
      <<"first", NL, "then", " ", "create a">>,
      <<"x*8000", "x*4">>, <<"x*8000", "x*12000", "x*4">> }

MessageSet ==
    { TextMessage(text) : text \in Texts }
    \cup { BlockMessage(<<Block("tool_result")>>),
           BlockMessage(<<Block("tool_use")>>),
           BlockMessage(<<Block("tool_result"), Block("tool_result"), Block("tool_result")>>),
           BlockMessage(<<TextBlock(<<"create a">>), Block("tool_result"),
                          TextBlock(<<"analyze">>)>>),
           BlockMessage(<<[type |-> "text", text |-> Undefined], Block("image")>>),
           [role |-> "user", content |-> NoContent] }

Histories == UNION { [1..n -> MessageSet] : n \in 0..MaxMessages }

Tools(isArray, length) == Some([isArray |-> isArray, length |-> length])
ToolsValues ==
    { Undefined, Tools(FALSE, 20), Tools(TRUE, 0), Tools(TRUE, 1), Tools(TRUE, 5),
      Tools(TRUE, 15) }

SystemValues ==
    { Undefined, Some(<<>>), Some(<<"x*12000">>), Some(<<"x*12000", "x*4">>),
      Some(<<"x*12000", "x*12000", "x*8000", "x*4">>) }

\* Requests of one message at most, at the edges of the length and tool
\* count thresholds and with several words of one category
EdgeTexts ==
    { <<"hello">>, <<"x*8000">>, <<"x*8000", "x">>, <<"x*8000", "x*12000">>,
      <<"x*8000", "x*12000", "x">>, <<"review", " ", "analyze">>,
      <<"review", " ", "analyze", " ", "architect">>,
      <<"DottedI*8000">>, <<"DottedI*8000", "DottedI*8000">> }
\* A question after three tool results, and a session of seven messages
\* with three tool results of which two are among the last six
ToolResultMessage == BlockMessage(<<Block("tool_result")>>)
AgenticTurn ==
    <<ToolResultMessage, ToolResultMessage, ToolResultMessage, TextMessage(<<"hello">>)>>
LongSession ==
    <<ToolResultMessage, ToolResultMessage, TextMessage(<<"calculate">>),
      BlockMessage(<<Block("tool_use")>>), TextMessage(<<"hello">>),
      BlockMessage(<<Block("tool_use")>>), ToolResultMessage>>
EdgeHistories ==
    { <<>>, <<BlockMessage(<<Block("tool_use")>>)>>,
      <<TextMessage(<<"calculate">>), AssistantMessage(<<"hello">>)>>,
      <<TextMessage(<<"hello">>), AssistantMessage(FencedCode)>>,
      AgenticTurn, LongSession }
    \cup { <<TextMessage(text)>> : text \in EdgeTexts }
EdgeTools == { Undefined } \cup { Tools(TRUE, n) : n \in {0, 1, 4, 5, 14, 15, 16} }

Requests ==
    (Histories \X ToolsValues \X SystemValues)
    \cup (EdgeHistories \X EdgeTools \X {Undefined})

\* A request arrives: its history, its tools and its system prompt.
InitClassify ==
    /\ InitRelay
    /\ \E request \in Requests :
          /\ messages = request[1]
          /\ bodyTools = request[2]
          /\ system = request[3]
    /\ complexity = "unset"
    /\ NoAggregatorCall
    /\ FreshInstall
    /\ NoBrainCall
    /\ NoMeshCall

\* classifyComplexity(messages, bodyTools, system)
Classify ==
    /\ complexity = "unset"
    /\ complexity' = classifyComplexity(messages, bodyTools, system)
    /\ UNCHANGED <<pc, exit, ret, upstream, pos, buffer, chunks, ttftMs, startTime,
                   now, closed, broken, wire, ended, log, timer, messages,
                   bodyTools, system, aggregatorVars, configVars, brainVars, meshVars>>

\* The same request is classified once more.
ClassifyAgain ==
    /\ complexity # "unset"
    /\ complexity' = classifyComplexity(messages, bodyTools, system)
    /\ UNCHANGED <<pc, exit, ret, upstream, pos, buffer, chunks, ttftMs, startTime,
                   now, closed, broken, wire, ended, log, timer, messages,
                   bodyTools, system, aggregatorVars, configVars, brainVars, meshVars>>

NextClassify == Classify \/ ClassifyAgain

SpecClassify == InitClassify /\ [][NextClassify]_vars

----------------------------------------------------------------------------
(* aggregateStreamingResponse.  A chunk is a parsed JSON value; what the   *)
(* function reads of it is its kind (typeof, null), and, of an object, the *)
(* properties model, choices, usage, and below choices[0] and usage.       *)

\* The values of a property: absent, null, a string, a number
VUndefined == [t |-> "undefined", s |-> <<>>, n |-> 0]
VNull == [t |-> "null", s |-> <<>>, n |-> 0]
VString(text) == [t |-> "string", s |-> text, n |-> 0]
VNumber(n) == [t |-> "number", s |-> <<>>, n |-> n]

\* `v && typeof v === 'string'`
IsNonEmptyString(v) == v.t = "string" /\ v.s # <<>>

\* {}: an object without any of the properties read
EmptyObject ==
    [ kind |-> "object",
      model |-> VUndefined,
      choices |-> "undefined",       \* or "string", "empty" for [], "one" for [choice]
      choice |-> "object",           \* choices[0]: "null", "number" or "object"
      delta |-> "undefined",         \* choices[0].delta: or "null", "string", "object"
      content |-> VUndefined,        \* choices[0].delta.content
      finish_reason |-> VUndefined,  \* choices[0].finish_reason
      usage |-> "undefined",         \* or "null", "string", "object"
      prompt_tokens |-> VUndefined,
      completion_tokens |-> VUndefined,
      total_tokens |-> VUndefined ]

\* A chunk that is not an object: null, or a number
NotAnObject(kind) == [EmptyObject EXCEPT !.kind = kind]

\* The locals before the loop
NoUsage == <<>>
Locals(content, usage, model, finish_reason) ==
    [content |-> content, usage |-> usage, model |-> model, finish_reason |-> finish_reason]
InitialLocals == Locals(<<>>, NoUsage, Undefined, Undefined)

\* `choice.delta` of a choice that is null: reading a property of null
ThrowsOn(chunk) ==
    chunk.kind = "object" /\ chunk.choices = "one" /\ chunk.choice = "null"

\* The usage object built from a chunk's usage
UsageOf(chunk) ==
    [ prompt_tokens |-> chunk.prompt_tokens.n,
      completion_tokens |-> chunk.completion_tokens.n,
      total_tokens |->
          IF chunk.total_tokens.t \in {"undefined", "null"}
          THEN VNumber(chunk.prompt_tokens.n + chunk.completion_tokens.n)
          ELSE chunk.total_tokens ]

\* One turn of the loop that does not throw, had the delta's content replaced
\* the running content
LoopBody_Replace(acc, chunk) ==
    IF chunk.kind # "object" THEN acc
    ELSE LET hasChoice == chunk.choices = "one"
             withModel == IF IsNonEmptyString(chunk.model)
                          THEN [acc EXCEPT !.model = Some(chunk.model.s)] ELSE acc
             withContent == IF hasChoice /\ chunk.delta = "object" /\ chunk.content.t = "string"
                            THEN [withModel EXCEPT !.content = chunk.content.s]
                            ELSE withModel
             withFinish == IF hasChoice /\ IsNonEmptyString(chunk.finish_reason)
                           THEN [withContent EXCEPT !.finish_reason = Some(chunk.finish_reason.s)]
                           ELSE withContent
         IN  IF /\ chunk.usage = "object"
                /\ chunk.prompt_tokens.t = "number"
                /\ chunk.completion_tokens.t = "number"
             THEN [withFinish EXCEPT !.usage = Some(UsageOf(chunk))]
             ELSE withFinish

\* One turn of the loop that does not throw
LoopBody(acc, chunk) ==
    IF chunk.kind # "object" THEN acc
    ELSE LET hasChoice == chunk.choices = "one"
             withModel == IF IsNonEmptyString(chunk.model)
                          THEN [acc EXCEPT !.model = Some(chunk.model.s)] ELSE acc
             withContent == IF hasChoice /\ chunk.delta = "object" /\ chunk.content.t = "string"
                            THEN [withModel EXCEPT !.content = @ \o chunk.content.s]
                            ELSE withModel
             withFinish == IF hasChoice /\ IsNonEmptyString(chunk.finish_reason)
                           THEN [withContent EXCEPT !.finish_reason = Some(chunk.finish_reason.s)]
                           ELSE withContent
         IN  IF /\ chunk.usage = "object"
                /\ chunk.prompt_tokens.t = "number"
                /\ chunk.completion_tokens.t = "number"
             THEN [withFinish EXCEPT !.usage = Some(UsageOf(chunk))]
             ELSE withFinish

\* The whole call: the returned object, or the error thrown
Returns(value) == [error |-> "", value |-> Some(value)]
Throws(error) == [error |-> error, value |-> Undefined]
RECURSIVE Loop(_, _)
Loop(acc, list) ==
    IF list = <<>> THEN Returns(acc)
    ELSE IF ThrowsOn(list[1]) THEN Throws("TypeError")
    ELSE Loop(LoopBody(acc, list[1]), Slice(list, 1))
aggregateStreamingResponse(list) == Loop(InitialLocals, list)

\* The chunks of the calls
DeltaChunk(text) ==
    [EmptyObject EXCEPT !.choices = "one", !.delta = "object", !.content = VString(text)]
Usage(chunk, prompt, completion, total) ==
    [chunk EXCEPT !.usage = "object", !.prompt_tokens = prompt,
                  !.completion_tokens = completion, !.total_tokens = total]
Fragments == { <<>>, <<"He">>, <<"llo">>, <<"He", "llo">> }
ChunkSet ==
    { NotAnObject("null"), NotAnObject("number"),
      [DeltaChunk(<<"He">>) EXCEPT !.model = VString(<<"m1">>)],
      [DeltaChunk(<<"llo">>) EXCEPT !.model = VString(<<"m2">>), !.finish_reason = VNull],
      DeltaChunk(<<>>),
      DeltaChunk(<<"He", "llo">>),
      Usage([EmptyObject EXCEPT !.model = VString(<<>>), !.choices = "one", !.delta = "object",
                                !.finish_reason = VString(<<"stop">>)],
            VNumber(1), VNumber(2), VUndefined),
      Usage([EmptyObject EXCEPT !.model = VNumber(7), !.choices = "empty",
                                !.finish_reason = VString(<<"length">>)],
            VNumber(3), VNumber(4), VNumber(9)),
      Usage([EmptyObject EXCEPT !.choices = "one", !.delta = "null",
                                !.finish_reason = VString(<<>>)],
            VNumber(1), VString(<<"2">>), VUndefined),
      [EmptyObject EXCEPT !.choices = "string", !.usage = "null", !.content = VString(<<"He">>),
                          !.finish_reason = VString(<<"length">>)],
      [EmptyObject EXCEPT !.choices = "one", !.choice = "null"],
      [EmptyObject EXCEPT !.choices = "one", !.choice = "number", !.usage = "string"],
      Usage([EmptyObject EXCEPT !.choices = "one", !.delta = "string",
                                !.content = VNumber(5),
                                !.finish_reason = VString(<<"length">>)],
            VNumber(2), VNumber(2), VNull) }
ChunkSequences == UNION { [1..n -> ChunkSet] : n \in 0..MaxChunks }

\* aggregateStreamingResponse(chunks) is called.
InitAggregate ==
    /\ InitRelay
    /\ NoClassifierCall
    /\ received \in ChunkSequences
    /\ next = 1
    /\ running = InitialLocals
    /\ outcome = "looping"
    /\ FreshInstall
    /\ NoBrainCall
    /\ NoMeshCall

\* for (const chunk of chunks) { ... }: one chunk
Iterate ==
    /\ outcome = "looping"
    /\ next <= Len(received)
    /\ IF ThrowsOn(received[next])
       THEN outcome' = "TypeError" /\ UNCHANGED running
       ELSE running' = LoopBody(running, received[next]) /\ UNCHANGED outcome
    /\ next' = next + 1
    /\ UNCHANGED <<received, pc, exit, ret, upstream, pos, buffer, chunks, ttftMs,
                   startTime, now, closed, broken, wire, ended, log, timer,
                   classifierVars, configVars, brainVars, meshVars>>

\* return { content, usage, model, finish_reason }
AggregateReturn ==
    /\ outcome = "looping"
    /\ next > Len(received)
    /\ outcome' = "returned"
    /\ UNCHANGED <<received, next, running, pc, exit, ret, upstream, pos, buffer,
                   chunks, ttftMs, startTime, now, closed, broken, wire, ended, log,
                   timer, classifierVars, configVars, brainVars, meshVars>>

NextAggregate == Iterate \/ AggregateReturn

SpecAggregate == InitAggregate /\ [][NextAggregate]_vars

----------------------------------------------------------------------------
(* The configuration module and the Swarm client's setApiKey, which write  *)
(* the same file.  Every function is synchronous, so a call is one action. *)

CONFIG_VERSION == 1

\* generateDeviceId: an ID that was never drawn before
generateDeviceId(drawn) == drawn + 1

\* `!v` of a property that is absent or a number
Falsy(field) == field = Undefined \/ field = Some(0)

createDefaultConfig(drawn, time) ==
    [NoConfig EXCEPT !.device_id = Some(generateDeviceId(drawn)),
                     !.telemetry_enabled = Some(TRUE),
                     !.first_run_complete = Some(FALSE),
                     !.config_version = Some(CONFIG_VERSION),
                     !.created_at = Some(time),
                     !.updated_at = Some(time)]

\* A call's effect: the object it returns, the file it leaves, the IDs drawn
Effect(config, file, drawn) == [config |-> config, file |-> file, drawn |-> drawn]

\* saveConfig(config): config.updated_at is set, and the file written
Saved(config, time) == [config EXCEPT !.updated_at = Some(time)]
saveConfig(config, drawn, time) ==
    Effect(Saved(config, time), FileWith(Saved(config, time)), drawn)

loadConfig(file, drawn, time) ==
    IF file.state # "valid"
    THEN saveConfig(createDefaultConfig(drawn, time), drawn + 1, time)
    ELSE LET withId == IF Falsy(file.config.device_id)
                       THEN [file.config EXCEPT !.device_id = Some(generateDeviceId(drawn))]
                       ELSE file.config
             withTelemetry == IF withId.telemetry_enabled = Undefined
                              THEN [withId EXCEPT !.telemetry_enabled = Some(TRUE)]
                              ELSE withId
             withVersion == IF Falsy(withTelemetry.config_version)
                            THEN [withTelemetry EXCEPT !.config_version = Some(CONFIG_VERSION)]
                            ELSE withTelemetry
         IN  Effect(withVersion, file,
                    IF Falsy(file.config.device_id) THEN drawn + 1 ELSE drawn)

\* Object.assign(config, updates): the properties that updates has
ObjectAssign(config, updates) ==
    [f \in DOMAIN config |-> IF updates[f] # Undefined THEN updates[f] ELSE config[f]]

updateConfig(file, drawn, time, updates) ==
    LET loaded == loadConfig(file, drawn, time)
    IN  saveConfig(ObjectAssign(loaded.config, updates), loaded.drawn, time)

\* The Swarm client's setApiKey: the object in the file, or {} when there is
\* none or it cannot be parsed, written back with apiKey set
SwarmSetApiKeyFile(file, apiKey) ==
    FileWith([file.config EXCEPT !.apiKey = Some(apiKey)])

\* The Swarm client's getApiKey: `config.apiKey || null` of a file that
\* parses, the environment's key or null when the file is absent or does not
\* parse; null is Undefined here.
swarmGetApiKey(file, env) ==
    IF file.state = "valid"
    THEN IF file.config.apiKey \notin {Undefined, Some(<<>>)}
         THEN file.config.apiKey
         ELSE Undefined
    ELSE IF env \notin {Undefined, Some(<<>>)} THEN env ELSE Undefined

\* Keys, as a prefix and a tail
LivePrefix == "rp_live_"
TrialPrefix == "rp_trial_"
LiveKey == <<LivePrefix, "1">>
TrialKey == <<TrialPrefix, "2">>
OtherKey == <<"sk_", "3">>

hasBrainAccess(off, file, env) ==
    IF off THEN FALSE
    ELSE LET apiKey == swarmGetApiKey(file, env)
         IN  IF apiKey = Undefined THEN FALSE
             ELSE \/ StartsWith(apiKey[1], <<LivePrefix>>)
                  \/ StartsWith(apiKey[1], <<TrialPrefix>>)

\* The calls made
ApiKeys == { LiveKey, OtherKey }
Updates ==
    { [NoConfig EXCEPT !.first_run_complete = Some(FALSE)],
      [NoConfig EXCEPT !.api_key = Some(LiveKey), !.telemetry_enabled = Some(TRUE)] }

\* A call of the configuration module that loads the file: it has the IDs it
\* may have to draw.
CanLoad ==
    \/ configFile.state = "valid" /\ ~Falsy(configFile.config.device_id)
    \/ generated < MaxIds

\* A call that loads, maybe updates, and returns `value` of what it loaded
ConfigCall(effect, op, value, opted) ==
    /\ CanLoad
    /\ configFile' = effect.file
    /\ generated' = effect.drawn
    /\ returned' = CallResult(op, value)
    /\ optIn' = opted
    /\ UNCHANGED <<pc, exit, ret, upstream, pos, buffer, chunks, ttftMs, startTime,
                   now, closed, broken, wire, ended, log, timer, classifierVars,
                   aggregatorVars, brainVars, meshVars>>

LoadConfig ==
    /\ ConfigCall(loadConfig(configFile, generated, now), "loadConfig", Undefined, optIn)
    /\ UNCHANGED deviceIds

UpdateConfig ==
    \E updates \in Updates :
        /\ ConfigCall(updateConfig(configFile, generated, now, updates), "updateConfig",
                      Undefined,
                      IF updates.telemetry_enabled = Some(TRUE) THEN "enabled" ELSE optIn)
        /\ UNCHANGED deviceIds

MarkFirstRunComplete ==
    /\ ConfigCall(updateConfig(configFile, generated, now,
                               [NoConfig EXCEPT !.first_run_complete = Some(TRUE)]),
                  "markFirstRunComplete", Undefined, optIn)
    /\ UNCHANGED deviceIds

IsTelemetryEnabled ==
    LET effect == loadConfig(configFile, generated, now)
    IN  /\ ConfigCall(effect, "isTelemetryEnabled", effect.config.telemetry_enabled, optIn)
        /\ UNCHANGED deviceIds

EnableTelemetry ==
    /\ ConfigCall(updateConfig(configFile, generated, now,
                               [NoConfig EXCEPT !.telemetry_enabled = Some(TRUE)]),
                  "enableTelemetry", Undefined, "enabled")
    /\ UNCHANGED deviceIds

DisableTelemetry ==
    /\ ConfigCall(updateConfig(configFile, generated, now,
                               [NoConfig EXCEPT !.telemetry_enabled = Some(FALSE)]),
                  "disableTelemetry", Undefined, "disabled")
    /\ UNCHANGED deviceIds

GetDeviceId ==
    LET effect == loadConfig(configFile, generated, now)
    IN  /\ ConfigCall(effect, "getDeviceId", effect.config.device_id, optIn)
        /\ deviceIds' = deviceIds \cup {effect.config.device_id[1]}

SetApiKey ==
    \E key \in ApiKeys :
        /\ ConfigCall(updateConfig(configFile, generated, now,
                                   [NoConfig EXCEPT !.api_key = Some(key)]),
                      "setApiKey", Undefined, optIn)
        /\ UNCHANGED deviceIds

\* setApiKey of the Swarm client
SwarmSetApiKey ==
    \E apiKey \in ApiKeys :
        /\ configFile' = SwarmSetApiKeyFile(configFile, apiKey)
        /\ returned' = CallResult("swarm.setApiKey", Undefined)
        /\ UNCHANGED <<generated, optIn, deviceIds>>
        /\ UNCHANGED <<pc, exit, ret, upstream, pos, buffer, chunks, ttftMs, startTime,
                       now, closed, broken, wire, ended, log, timer, classifierVars,
                       aggregatorVars, brainVars, meshVars>>

\* A call of the Swarm client that reads the file and the environment
SwarmRead(op, value) ==
    /\ returned' = CallResult(op, value)
    /\ UNCHANGED <<configFile, generated, optIn, deviceIds>>
    /\ UNCHANGED <<pc, exit, ret, upstream, pos, buffer, chunks, ttftMs, startTime,
                   now, closed, broken, wire, ended, log, timer, classifierVars,
                   aggregatorVars, brainVars, meshVars>>

\* getApiKey and hasBrainAccess of the Swarm client
SwarmGetApiKey == SwarmRead("swarm.getApiKey", swarmGetApiKey(configFile, envKey))
HasBrainAccess ==
    SwarmRead("hasBrainAccess", Some(hasBrainAccess(offline, configFile, envKey)))

\* setOfflineMode(!isOfflineMode())
SetOfflineMode ==
    /\ offline' = ~offline
    /\ UNCHANGED <<envKey, brainPc, currentModel, brainTimer, reply, routing>>
    /\ UNCHANGED <<pc, exit, ret, upstream, pos, buffer, chunks, ttftMs, startTime,
                   now, closed, broken, wire, ended, log, timer, classifierVars,
                   aggregatorVars, configVars, meshVars>>

\* The user deletes the file, or something leaves it unparseable.
FileDamaged(file) ==
    /\ configFile.state = "valid"
    /\ configFile' = file
    /\ returned' = CallResult("none", Undefined)
    /\ deviceIds' = {}
    /\ UNCHANGED <<generated, optIn>>
    /\ UNCHANGED <<pc, exit, ret, upstream, pos, buffer, chunks, ttftMs, startTime,
                   now, closed, broken, wire, ended, log, timer, classifierVars,
                   aggregatorVars, brainVars, meshVars>>
DeleteFile == FileDamaged(FileMissing)
CorruptFile == FileDamaged(FileCorrupt)

NextConfig ==
    \/ LoadConfig \/ UpdateConfig \/ MarkFirstRunComplete
    \/ IsTelemetryEnabled \/ EnableTelemetry \/ DisableTelemetry
    \/ GetDeviceId \/ SetApiKey \/ SwarmSetApiKey
    \/ SwarmGetApiKey \/ HasBrainAccess \/ SetOfflineMode
    \/ DeleteFile \/ CorruptFile
    \/ Tick

SpecConfig == Init /\ [][NextConfig]_vars

----------------------------------------------------------------------------
(* initMesh and the handle it resolves with.  initMesh is suspended at the *)
(* imports of loadMeshModules; the try block that follows and every method *)
(* of the handle but sync are synchronous.                                 *)

MeshPackages == 3
MaxTips == 10

\* How initMesh settles when an import rejects, had loadMeshModules not
\* caught it
ImportFailure_Uncaught(n) == "rejected"

\* How initMesh settles when the n-th import rejects: loadMeshModules
\* catches, returns false, and initMesh returns the no-op handle.
ImportFailure(n) == "unavailable"

\* The handle initMesh resolves with
HandleOf(settled) ==
    CASE settled \in {"disabled", "unavailable", "failed"} -> "noop"
      [] settled = "ready" -> "working"
      [] OTHER -> "none"

\* The steps of the try block, in order; the last two only when
\* config.contribute
InitSteps(config) ==
    <<"mkdirSync", "new AtomStore", "new ContextInjector", "injector.start">>
    \o (IF config.contribute THEN <<"resolveSyncConfig", "startAutoSync">> ELSE <<>>)

\* What the try block has built when its step number `failed` throws
\* (0: none does)
Built(config, failed) ==
    LET done == IF failed = 0 THEN Len(InitSteps(config)) ELSE failed - 1
    IN  [store |-> IF done >= 2 THEN "open" ELSE "none",
         injector |-> IF done >= 4 THEN "running" ELSE "none",
         autoSync |-> IF done >= 6 THEN "running" ELSE "none",
         settled |-> IF failed = 0 THEN "ready" ELSE "failed"]

MeshFrame ==
    UNCHANGED <<pc, exit, ret, upstream, pos, buffer, chunks, ttftMs, startTime,
                now, closed, broken, wire, ended, log, timer, classifierVars,
                aggregatorVars, configVars, brainVars>>

InitMeshCall ==
    /\ InitRelay
    /\ NoClassifierCall
    /\ NoAggregatorCall
    /\ FreshInstall
    /\ NoBrainCall
    /\ meshPc = "idle"
    /\ meshConfig \in [enabled : BOOLEAN, contribute : BOOLEAN]
    /\ NoStore

\* initMesh(config) is called: `if (!config.enabled) return noopHandle`, or
\* the await of loadMeshModules.
InitMesh ==
    /\ meshPc = "idle"
    /\ meshPc' = IF ~meshConfig.enabled THEN "disabled" ELSE "loading"
    /\ handle' = HandleOf(meshPc')
    /\ UNCHANGED <<meshConfig, imported, meshAvailable, store, atoms, injector,
                   autoSync, meshReturned>>
    /\ MeshFrame

\* An import of loadMeshModules resolves; after the last one meshAvailable
\* is set and loadMeshModules returns true.
ImportResolves ==
    /\ meshPc = "loading"
    /\ imported' = imported + 1
    /\ IF imported' = MeshPackages
       THEN meshAvailable' = TRUE /\ meshPc' = "initializing"
       ELSE UNCHANGED <<meshAvailable, meshPc>>
    /\ UNCHANGED <<meshConfig, store, atoms, injector, autoSync, handle, meshReturned>>
    /\ MeshFrame

\* An import of loadMeshModules rejects.
ImportRejects ==
    /\ meshPc = "loading"
    /\ meshPc' = ImportFailure(imported + 1)
    /\ handle' = HandleOf(meshPc')
    /\ UNCHANGED <<meshConfig, imported, meshAvailable, store, atoms, injector,
                   autoSync, meshReturned>>
    /\ MeshFrame

\* The try block of initMesh: it runs to the end, or one of its steps
\* throws and the catch block returns the no-op handle.
Initialize ==
    /\ meshPc = "initializing"
    /\ \E failed \in 0..Len(InitSteps(meshConfig)) :
          LET built == Built(meshConfig, failed)
          IN  /\ store' = built.store
              /\ injector' = built.injector
              /\ autoSync' = built.autoSync
              /\ meshPc' = built.settled
              /\ handle' = HandleOf(built.settled)
    /\ UNCHANGED <<meshConfig, imported, meshAvailable, atoms, meshReturned>>
    /\ MeshFrame

\* A method of the handle was called and returned `value`.
HandleCall(op, value) ==
    /\ handle # "none"
    /\ meshReturned' = MeshResult(op, value)
    /\ UNCHANGED <<meshPc, meshConfig, imported, meshAvailable, handle>>
    /\ MeshFrame

\* handle.captureRequest(params): nothing on the no-op handle; on a working
\* one captureToolCall stores an atom, or throws and is ignored.
CaptureRequest ==
    /\ HandleCall("captureRequest", NoValue)
    /\ IF handle = "working"
       THEN \E thrown \in BOOLEAN :
                    /\ atoms' = IF thrown \/ atoms = MaxAtoms THEN atoms ELSE atoms + 1
       ELSE UNCHANGED atoms
    /\ UNCHANGED <<store, injector, autoSync>>

\* handle.getTips(): [] on the no-op handle; on a working one the top atoms,
\* or [] when getTopAtoms throws.
GetTips ==
    /\ \E thrown \in BOOLEAN :
          /\ HandleCall("getTips",
                [NoValue EXCEPT !.tips =
                    IF handle = "working" /\ ~thrown
                    THEN (IF atoms < MaxTips THEN atoms ELSE MaxTips)
                    ELSE 0])
    /\ UNCHANGED <<store, atoms, injector, autoSync>>

\* handle.getStatus()
GetStatus ==
    /\ \E thrown \in BOOLEAN :
          /\ HandleCall("getStatus",
                IF handle = "working"
                THEN [NoValue EXCEPT !.available = TRUE, !.enabled = TRUE,
                                     !.atomCount = IF thrown THEN 0 ELSE atoms,
                                     !.contributing = meshConfig.contribute]
                ELSE [NoValue EXCEPT !.enabled = meshConfig.enabled])
    /\ UNCHANGED <<store, atoms, injector, autoSync>>

\* handle.sync(): null on the no-op handle and when config.contribute is
\* false; otherwise the counts of syncWithMesh, or null when the import or
\* the sync rejects.  The sync may pull atoms.
Sync ==
    /\ \E thrown \in BOOLEAN, pulled \in 0..1 :
          LET ran == handle = "working" /\ meshConfig.contribute /\ ~thrown
          IN  /\ HandleCall("sync",
                    [NoValue EXCEPT !.synced = IF ran THEN "counts" ELSE "null"])
              /\ atoms' = IF ran /\ atoms + pulled <= MaxAtoms
                          THEN atoms + pulled ELSE atoms
    /\ UNCHANGED <<store, injector, autoSync>>

\* handle.stop(): nothing on the no-op handle; on a working one the
\* injector and the auto-sync are stopped and the store closed, as far as
\* the calls get before one throws.
Stop ==
    /\ HandleCall("stop", NoValue)
    /\ IF handle = "working"
       THEN \E done \in 0..3 :
               /\ injector' = IF done >= 1 THEN "stopped" ELSE injector
               /\ autoSync' = IF done >= 2 /\ autoSync # "none" THEN "stopped" ELSE autoSync
               /\ store' = IF done >= 3 THEN "closed" ELSE store
       ELSE UNCHANGED <<store, injector, autoSync>>
    /\ UNCHANGED atoms

NextMesh ==
    \/ InitMesh
    \/ ImportResolves
    \/ ImportRejects
    \/ Initialize
    \/ CaptureRequest
    \/ GetTips
    \/ GetStatus
    \/ Sync
    \/ Stop

SpecMesh == InitMeshCall /\ [][NextMesh]_vars

----------------------------------------------------------------------------
(* The Swarm client's getBrainRouting, with getRouteRecommendation inlined. *)
(* The call is suspended at two awaits: fetch and response.json().          *)

BRAIN_TIMEOUT_MS == 5000

StaticReason == "Static routing (Brain unavailable)"

\* A promise settled: resolved with { model, reason, isBrain }, or rejected
Resolved(model, reason, isBrain) ==
    [state |-> "resolved", model |-> model, isBrain |-> isBrain, reason |-> reason]
RejectedWith(error) ==
    [state |-> "rejected", model |-> Undefined, isBrain |-> FALSE, reason |-> error]

\* The end of getBrainRouting: brainResponse is null (Undefined here) or the
\* object the API sent; reading .reason of a missing explanation throws.
AfterRecommendation(brainResponse, model) ==
    IF brainResponse # Undefined /\ brainResponse[1].success
    THEN IF brainResponse[1].explanation = Undefined
         THEN RejectedWith("TypeError")
         ELSE Resolved(brainResponse[1].recommendedModel,
                       brainResponse[1].explanation[1], TRUE)
    ELSE Resolved(Some(model), StaticReason, FALSE)

\* What the API can answer
Models == { "haiku", "opus" }
Bodies200 ==
    { JsonBody("invalid", FALSE, Undefined, Undefined),
      JsonBody("null", FALSE, Undefined, Undefined),
      JsonBody("object", FALSE, Undefined, Undefined),
      JsonBody("object", FALSE, Some("opus"), Some("busy")),
      JsonBody("object", TRUE, Some("opus"), Some("cheaper")),
      JsonBody("object", TRUE, Undefined, Some("cheaper")),
      JsonBody("object", TRUE, Some("opus"), Undefined) }
Responses ==
    { [ok |-> TRUE, body |-> body] : body \in Bodies200 }
    \cup { [ok |-> FALSE, body |-> JsonBody("object", FALSE, Undefined, Undefined)],
           [ok |-> FALSE, body |-> JsonBody("object", TRUE, Some("opus"), Some("cheaper"))] }

\* The files and environments the client can find
BrainFiles ==
    { FileMissing, FileCorrupt, FileWith(NoConfig),
      FileWith([NoConfig EXCEPT !.api_key = Some(LiveKey)]) }
    \cup { FileWith([NoConfig EXCEPT !.apiKey = Some(key)]) :
             key \in {LiveKey, TrialKey, OtherKey} }
EnvKeys == { Undefined, Some(LiveKey), Some(OtherKey) }

InitBrain ==
    /\ InitRelay
    /\ NoClassifierCall
    /\ NoAggregatorCall
    /\ configFile \in BrainFiles
    /\ generated = 0
    /\ returned = CallResult("none", Undefined)
    /\ optIn = "never"
    /\ deviceIds = {}
    /\ offline \in BOOLEAN
    /\ envKey \in EnvKeys
    /\ brainPc = "idle"
    /\ currentModel = ""
    /\ brainTimer = "unset"
    /\ reply = NoResponse
    /\ routing = NoRouting
    /\ NoMeshCall

\* getRouteRecommendation returned brainResponse; getBrainRouting settles.
Settle(brainResponse, model) ==
    /\ brainPc' = "settled"
    /\ routing' = AfterRecommendation(brainResponse, model)

BrainFrame ==
    UNCHANGED <<pc, exit, ret, upstream, pos, buffer, chunks, ttftMs, startTime,
                now, closed, broken, wire, ended, log, timer, classifierVars,
                aggregatorVars, configVars, meshVars, offline, envKey>>

\* getBrainRouting(inputTokens, outputTokens, currentModel) is called: up to
\* the await of fetch, or to the return when there is no Brain access.
GetBrainRouting ==
    /\ brainPc = "idle"
    /\ \E model \in Models :
          /\ currentModel' = model
          /\ IF \/ ~hasBrainAccess(offline, configFile, envKey)
                \/ swarmGetApiKey(configFile, envKey) = Undefined
             THEN Settle(Undefined, model) /\ UNCHANGED brainTimer
             ELSE /\ brainTimer' = "armed"
                  /\ brainPc' = "fetch"
                  /\ UNCHANGED routing
    /\ UNCHANGED reply
    /\ BrainFrame

\* BRAIN_TIMEOUT_MS have passed: controller.abort()
TimerFires ==
    /\ brainTimer = "armed"
    /\ brainTimer' = "fired"
    /\ UNCHANGED <<brainPc, currentModel, reply, routing>>
    /\ BrainFrame

\* fetch rejects: aborted by the timer, or a network error; the catch
\* block returns null and leaves the timer as it is.
BrainFetchRejects ==
    /\ brainPc = "fetch"
    /\ Settle(Undefined, currentModel)
    /\ UNCHANGED <<currentModel, brainTimer, reply>>
    /\ BrainFrame

\* fetch resolves before the timer fired: clearTimeout, then the test of
\* response.ok.
BrainFetchResolves ==
    /\ brainPc = "fetch"
    /\ brainTimer = "armed"
    /\ \E response \in Responses :
          /\ reply' = response
          /\ brainTimer' = "cleared"
          /\ IF ~response.ok
             THEN Settle(Undefined, currentModel)
             ELSE brainPc' = "json" /\ UNCHANGED routing
    /\ UNCHANGED currentModel
    /\ BrainFrame

\* await response.json() settles: it rejects on a body that is not JSON
\* (caught: null), or resolves with the value of the body.
BrainJson ==
    /\ brainPc = "json"
    /\ Settle(IF reply.body.json = "object" THEN Some(reply.body) ELSE Undefined,
              currentModel)
    /\ UNCHANGED <<currentModel, brainTimer, reply>>
    /\ BrainFrame

NextBrain ==
    \/ GetBrainRouting
    \/ TimerFires
    \/ BrainFetchRejects
    \/ BrainFetchResolves
    \/ BrainJson

SpecBrain == InitBrain /\ [][NextBrain]_vars

----------------------------------------------------------------------------
(* Reading the state *)

Returned == pc = "returned"
Result == ret[1]

\* The calls of one kind, in the order they were made
Calls(op) == SelectSeq(log, LAMBDA e : e.op = op)
Args(calls) == [i \in 1..Len(calls) |-> calls[i].arg]

\* The writer.write calls that forward a chunk
ChunkWrites ==
    SelectSeq(log, LAMBDA e : e.op = "write" /\ e.site \in {"loop", "flush"})

\* Every writer.write so far returned true.
AllWritesTrue == \A i \in 1..Len(log) : log[i].op = "write" => log[i].ret

\* close() was called while the sink was still open.
ClosedWhileOpen == \E i \in 1..Len(log) : log[i].op = "close" /\ log[i].open

DoneFrame == Frame(DoneMessage)
ChunkFrame(chunk) == Frame(Message(Undefined, chunk))
IsErrorFrame(frame) == StartsWith(frame, EventPrefix \o ErrorName \o <<NL>>)
IsChunkFrame(frame) == StartsWith(frame, DataPrefix) /\ frame # DoneFrame
Count(frames, frame) == Cardinality({i \in 1..Len(frames) : frames[i] = frame})

\* The writes the transport accepted; the frames of the forwarded chunks are
\* the first ones on the wire; the [DONE] messages of close() that reached
\* the wire.
Accepted == SelectSeq(log, LAMBDA e : e.op = "write" /\ e.ret)
ForwardedOnWire ==
    SubSeq(wire, 1, Len(SelectSeq(Accepted, LAMBDA e : e.site \in {"loop", "flush"})))
DonesWritten == Len(SelectSeq(Accepted, LAMBDA e : e.site = "close"))

\* What a close() call leaves in the log: the call, and the [DONE] write if
\* the sink was open.
CloseTail(open) ==
    IF open
    THEN << [op |-> "close", open |-> TRUE],
            [op |-> "write", site |-> "close", msg |-> DoneMessage, ret |-> ~broken] >>
    ELSE << [op |-> "close", open |-> FALSE] >>

\* The chunks of a text, read off the text as a whole: the payloads of its
\* data lines that are valid JSON and not the terminator, in order.
IsChunkLine(line) ==
    /\ StartsWith(line, DataPrefix)
    /\ Slice(line, Len(DataPrefix)) # DoneText
    /\ JSONValid(Slice(line, Len(DataPrefix)))
IsMalformedLine(line) ==
    /\ StartsWith(line, DataPrefix)
    /\ Slice(line, Len(DataPrefix)) # DoneText
    /\ ~JSONValid(Slice(line, Len(DataPrefix)))
ChunksOfLines(lines) ==
    LET good == SelectSeq(lines, IsChunkLine)
    IN  [i \in 1..Len(good) |-> JSONParse(Slice(good[i], Len(DataPrefix)))]
ChunksOf(text) == ChunksOfLines(Split(text))

\* What the reads have returned so far, and its complete lines
Consumed == SubSeq(upstream, 1, pos)
CompleteLines(text) == Front(Split(text))

IsPrefix(s, t) == Len(s) <= Len(t) /\ s = SubSeq(t, 1, Len(s))

----------------------------------------------------------------------------
(* C1, as claimed: on every exit path the relay calls close() before it    *)
(* returns, so that at the return the sink is closed and its terminating   *)
(* effect ([DONE] written, the transport ended) has happened exactly once. *)
C1_CloseOnEveryExit ==
    Returned =>
        /\ Len(Calls("close")) >= 1
        /\ closed
        /\ ended = 1
        /\ Count(wire, DoneFrame) = 1

(* C1, amended: at every return the sink is closed and its terminating     *)
(* effect has happened at most once; close() is called exactly once on the *)
(* rejected, no-body, drained and caught paths and not at all on the       *)
(* false-write path; the transport is ended exactly when that close()      *)
(* found the sink still open.                                              *)
C1_ClosedAtMostOnce ==
    Returned =>
        /\ closed
        /\ ended <= 1
        /\ DonesWritten <= ended
        /\ Len(Calls("close")) = (IF exit = "disconnected" THEN 0 ELSE 1)
        /\ (ended = 1 <=> ClosedWhileOpen)

\* C1's case: the relay returned on a false write after forwarding a chunk,
\* and nothing terminated the stream.
C1_Witness ==
    /\ Returned /\ exit = "disconnected"
    /\ Len(wire) = 1 /\ Len(chunks) = 2
    /\ ended = 0 /\ Calls("close") = <<>>

(* C2, as claimed: when the relay has returned, what was written to the    *)
(* transport ends with a data chunk followed by [DONE] or with an error    *)
(* event followed by [DONE], and the transport has been ended.             *)
C2_EndsWithDataOrErrorThenDone ==
    Returned =>
        /\ ended >= 1
        /\ Len(wire) >= 2
        /\ Last(wire) = DoneFrame
        /\ (IsChunkFrame(wire[Len(wire) - 1]) \/ IsErrorFrame(wire[Len(wire) - 1]))

(* C2, amended: when the relay has returned and close() found the sink     *)
(* open, the transport has been ended once and, the transport accepting    *)
(* the writes, what was written ends with close()'s [DONE]: after an error *)
(* event on the rejected and caught paths, after the forwarded chunks on a *)
(* drain, and alone on the no-body path and on a drain without chunks.     *)
(* When close() was not called or found the sink closed, it writes no      *)
(* [DONE] and the transport is not ended.                                  *)
C2_TerminatedWhenClosedOpen ==
    Returned =>
        /\ ClosedWhileOpen => ended = 1
        /\ (ClosedWhileOpen /\ ~broken) =>
              /\ Last(wire) = DoneFrame
              /\ DonesWritten = 1
              /\ (exit \in {"rejected", "caught"} =>
                    /\ Len(wire) >= 2
                    /\ IsErrorFrame(wire[Len(wire) - 1])
                    /\ Front(Front(wire)) = [i \in 1..Len(chunks) |-> ChunkFrame(chunks[i])])
              /\ (exit = "drained" =>
                    Front(wire) = [i \in 1..Len(chunks) |-> ChunkFrame(chunks[i])])
              /\ (exit = "nobody" => wire = <<DoneFrame>>)
        /\ ~ClosedWhileOpen => ended = 0 /\ DonesWritten = 0

\* C2's case: a drain of a body without chunks writes [DONE] alone.
C2_Witness ==
    /\ Returned /\ exit = "drained" /\ Result.success
    /\ upstream # <<>> /\ chunks = <<>>
    /\ wire = <<DoneFrame>> /\ ended = 1

----------------------------------------------------------------------------
(* C3: a writer.write that returns false for a chunk inside the read loop  *)
(* is the last thing the relay does: no further line is processed, no      *)
(* further chunk is passed to the callback, no further read is issued, and *)
(* the relay returns success false with the chunks up to and including the *)
(* one whose write failed, which are the first chunks of the body.         *)
C3_StopsAtTheFalseWrite ==
    \A i \in 1..Len(log) :
        (log[i].op = "write" /\ log[i].site = "loop" /\ ~log[i].ret) =>
            /\ i = Len(log)
            /\ Returned /\ exit = "disconnected"
            /\ ~ENABLED Read
            /\ Result = [success |-> FALSE, chunks |-> chunks, ttftMs |-> ttftMs]
            /\ chunks # <<>> /\ log[i].msg.data = Last(chunks)
            /\ Args(Calls("onChunk")) = chunks
            /\ IsPrefix(chunks, ChunksOf(upstream))

\* C3's case: the write of the second chunk returned false while the line of
\* a third chunk was already in the lines of the same read.
C3_Witness ==
    /\ Returned /\ exit = "disconnected"
    /\ Len(chunks) = 2
    /\ pos = Len(upstream) /\ buffer = <<>>
    /\ Len(ChunksOfLines(CompleteLines(upstream))) = 3

(* C4: the chunks passed to the chunk callback, the chunks handed to       *)
(* writer.write and the chunks collected are one and the same sequence,    *)
(* one write per chunk right after its callback, in the order of the body  *)
(* and without repetition; what reached the transport is a prefix of it;   *)
(* after a drain it is every chunk of the body.                            *)
C4_ArrivalOrder ==
    /\ Args(Calls("onChunk")) = chunks
    /\ [i \in 1..Len(ChunkWrites) |-> ChunkWrites[i].msg] =
            [i \in 1..Len(chunks) |-> Message(Undefined, chunks[i])]
    /\ \A i \in 1..Len(log) :
            log[i].op = "onChunk" =>
                /\ i < Len(log)
                /\ log[i + 1].op = "write"
                /\ log[i + 1].msg.data = log[i].arg
    /\ IsPrefix(chunks, ChunksOf(upstream))
    /\ Len(wire) = Len(Accepted)
    /\ IsPrefix(ForwardedOnWire, [i \in 1..Len(chunks) |-> ChunkFrame(chunks[i])])
    /\ (exit = "drained" =>
            /\ Result.success
            /\ Result.chunks = ChunksOf(upstream))

\* C4's case: a drain of three chunks, the last one left in the buffer.
C4_Witness ==
    /\ Returned /\ exit = "drained"
    /\ buffer # <<>>
    /\ Len(Result.chunks) = 3
    /\ Len(ForwardedOnWire) = 3

(* C5: a malformed data line yields no chunk and does not end the relay:   *)
(* the chunks never outnumber the well-formed chunk lines read, and a run  *)
(* over a body with a malformed line whose reads did not fail and whose    *)
(* writes all returned true ends drained, with success true and exactly    *)
(* the chunks of the body's well-formed lines.                             *)
C5_MalformedLineSkipped ==
    /\ Len(chunks) <= Len(ChunksOf(Consumed))
    /\ (/\ Returned
        /\ exit \notin {"caught", "rejected", "nobody"}
        /\ \E j \in 1..Len(Split(upstream)) : IsMalformedLine(Split(upstream)[j])
        /\ AllWritesTrue)
       => /\ exit = "drained"
          /\ Result.success
          /\ Result.chunks = ChunksOf(upstream)

\* C5's case: chunk, malformed frame, chunk.
C5_Witness ==
    /\ Returned /\ Result.success
    /\ upstream = BodyText(<<"chunk", "malformed", "chunk">>, 3, TRUE)
    /\ Len(Result.chunks) = 2
    /\ AllWritesTrue

(* C6: a thrown fetch or read ends in a return, not in a throw: the error  *)
(* callback is called with the error, an error event is handed to the sink *)
(* (and reaches the transport if the sink is open), the sink is closed,    *)
(* and the result is success false with the chunks of the complete lines   *)
(* read before the failure and the ttftMs set by then.                     *)
C6_ExceptionCaught ==
    exit = "caught" =>
        /\ Returned /\ closed
        /\ \E error \in Thrown, sent \in BOOLEAN :
              /\ Len(log) >= 2 + Len(CloseTail(sent))
              /\ SubSeq(log, 2 * Len(chunks) + 1, Len(log)) =
                    << [op |-> "onError", arg |-> error.message],
                       [op |-> "write", site |-> "catch",
                        msg |-> Message(Some(ErrorName),
                                    ErrorObject(IF error.isError THEN error.message
                                                ELSE StreamErrorText, <<>>)),
                        ret |-> sent] >> \o CloseTail(sent)
              /\ sent => Len(wire) >= 2 /\ IsErrorFrame(wire[Len(wire) - 1])
              /\ ~sent => \A i \in 1..Len(wire) : ~IsErrorFrame(wire[i])
        /\ Result = [success |-> FALSE, chunks |-> chunks, ttftMs |-> ttftMs]
        /\ chunks = ChunksOfLines(CompleteLines(Consumed))
        /\ (ttftMs # <<>> <=> pos > 0)

\* C6's case: the read fails after a chunk was forwarded.
C6_Witness ==
    /\ exit = "caught"
    /\ Len(Result.chunks) = 1 /\ Result.ttftMs = <<1>>
    /\ Len(wire) = 3

(* C7: on a non-success status no body is read and neither the chunk nor   *)
(* the completion callback is called; the error callback is called, one    *)
(* error event with message and status is handed to the sink, the sink is  *)
(* closed, an open sink receives exactly the error event and [DONE], and   *)
(* the result is success false, no chunks, ttftMs undefined.               *)
C7_UpstreamRejected ==
    exit = "rejected" =>
        /\ Returned /\ closed
        /\ pos = 0 /\ upstream = <<>>
        /\ \E status \in BadStatuses, sent \in BOOLEAN :
              LET message == ProviderReturnedText \o NumberText(status)
                  event == Message(Some(ErrorName), ErrorObject(message, <<status>>))
              IN  /\ log = << [op |-> "onError", arg |-> message],
                              [op |-> "write", site |-> "rejected",
                               msg |-> event, ret |-> sent] >> \o CloseTail(sent)
                  /\ wire = (IF sent THEN <<Frame(event)>> ELSE <<>>)
                            \o (IF sent /\ ~broken THEN <<DoneFrame>> ELSE <<>>)
                  /\ ended = (IF sent THEN 1 ELSE 0)
        /\ Result = [success |-> FALSE, chunks |-> <<>>, ttftMs |-> <<>>]

\* C7's case: status 429 with an open sink.
C7_Witness ==
    /\ exit = "rejected"
    /\ Len(wire) = 2 /\ IsErrorFrame(wire[1]) /\ wire[2] = DoneFrame
    /\ \E i \in 1..Len(wire[1]) : SubSeq(wire[1], i, i + 2) = <<"4", "2", "9">>

(* C8: a response without a body is reported through the error callback    *)
(* only: no error event is handed to the sink or written, the sink is      *)
(* closed, and the result is success false with no chunks.                 *)
C8_NoBody ==
    exit = "nobody" =>
        /\ Returned /\ closed
        /\ \E open \in BOOLEAN :
              /\ log = << [op |-> "onError", arg |-> NoResponseBodyText] >>
                       \o CloseTail(open)
              /\ wire = (IF open /\ ~broken THEN <<DoneFrame>> ELSE <<>>)
              /\ ended = (IF open THEN 1 ELSE 0)
        /\ Result = [success |-> FALSE, chunks |-> <<>>, ttftMs |-> <<>>]

\* C8's case: no body, open sink.
C8_Witness ==
    /\ exit = "nobody"
    /\ wire = <<DoneFrame>> /\ ended = 1
    /\ Len(Calls("onError")) = 1

(* C9: after a drain whose writes all returned true the result is success  *)
(* true with the N chunks of the body, and the completion callback was     *)
(* called exactly once, with those chunks, after the last chunk was        *)
(* forwarded and right before close().                                     *)
C9_CompletedOnce ==
    (exit = "drained" /\ AllWritesTrue) =>
        /\ Result = [success |-> TRUE, chunks |-> ChunksOf(upstream), ttftMs |-> ttftMs]
        /\ Len(chunks) = Len(SelectSeq(Split(upstream), IsChunkLine))
        /\ Calls("onComplete") = << [op |-> "onComplete", arg |-> Result.chunks] >>
        /\ Calls("onError") = <<>>
        /\ \E j \in 1..Len(log) :
              /\ log[j].op = "onComplete"
              /\ j = 2 * Len(chunks) + 1
              /\ \A i \in 1..(j - 1) : log[i].op \in {"onChunk", "write"}
              /\ SubSeq(log, j + 1, Len(log)) = CloseTail(ClosedWhileOpen)
        /\ ForwardedOnWire = [i \in 1..Len(chunks) |-> ChunkFrame(chunks[i])]

\* C9's case: two chunks, then the upstream closes.
C9_Witness ==
    /\ exit = "drained" /\ AllWritesTrue
    /\ Result.success /\ Len(Result.chunks) = 2
    /\ ttftMs = <<0>> /\ now = 1

(* C10: ttftMs starts undefined, is written only by the first read that    *)
(* returns data, with the time elapsed at that read, and no later step     *)
(* changes it; it is undefined as long as no read has returned data.       *)
C10_TtftSetOnce ==
    /\ ttftMs = <<>>
    /\ [][ /\ (ttftMs # <<>> => ttftMs' = ttftMs)
           /\ (ttftMs = <<>> /\ ttftMs' # <<>> =>
                  /\ pos = 0 /\ pos' > 0
                  /\ ttftMs' = <<now - startTime>>)
           /\ (pos = 0 /\ pos' > 0 => ttftMs' # <<>>)
           /\ (pos' = 0 => ttftMs' = <<>>)
           /\ (ret' # <<>> =>
                  ret'[1].ttftMs = (IF exit' \in {"rejected", "nobody"} THEN <<>> ELSE ttftMs'))
         ]_vars

\* C10's case: the first read returned at time 0, a later read at time 1.
C10_Witness ==
    /\ Returned /\ exit = "drained"
    /\ Result.ttftMs = <<0>> /\ now = 1
    /\ Len(chunks) = 2

----------------------------------------------------------------------------
(* C11: a data line left in the buffer when the upstream closes is handled *)
(* like a data line inside the read loop: parsed, appended to chunks,      *)
(* passed to the chunk callback and handed to the sink, and a false write  *)
(* for it makes the relay return success false.                            *)
C11_FlushLikeTheLoop ==
    (Returned /\ exit = "drained" /\ IsChunkLine(buffer)) =>
        /\ chunks # <<>>
        /\ Last(chunks) = JSONParse(Slice(buffer, Len(DataPrefix)))
        /\ \E i \in 1..Len(log) :
              /\ log[i] = [op |-> "onChunk", arg |-> Last(chunks)]
              /\ log[i + 1].op = "write" /\ log[i + 1].site = "flush"
              /\ log[i + 1].msg = Message(Undefined, Last(chunks))
              /\ (~log[i + 1].ret => ~Result.success)

----------------------------------------------------------------------------
(* C12: closed is terminal for the sink.  Whatever calls (write,           *)
(* writeData, comment, close, timer callbacks) and disconnect              *)
(* notifications follow, a closed sink stays closed, every later write,    *)
(* writeData and comment returns false, and nothing more reaches the       *)
(* transport (no write, no end).                                           *)
C12_ClosedIsTerminal ==
    [][closed =>
         /\ closed'
         /\ wire' = wire
         /\ ended' = ended
         /\ \A i \in (Len(log) + 1)..Len(log') :
               log'[i].op \in {"write", "comment"} => ~log'[i].ret]_vars

\* A sink closed by close() on which a later write or comment returned
\* false.
C12_Witness ==
    /\ closed
    /\ \E i \in 1..Len(log) :
          /\ log[i].op = "close" /\ log[i].open
          /\ Len(log) > i + 1
          /\ Last(log).op \in {"write", "comment"}
          /\ ~Last(log).ret

(* C13, as claimed: whatever the sink, close() called one or more times    *)
(* emits exactly one [DONE] message and ends the transport exactly once.   *)
C13_ExactlyOneDone ==
    (\E i \in 1..Len(log) : log[i].op = "close") =>
        /\ Count(wire, DoneFrame) = 1
        /\ ended = 1

(* C13, amended: close() is idempotent.  Only a close() that finds the     *)
(* sink open acts, and only the first close() can: it hands [DONE] to      *)
(* write, ends the transport once and leaves the sink closed; [DONE] is on *)
(* the wire exactly when that write was accepted.  A close() on a sink     *)
(* already closed (by an earlier close(), the disconnect or a rejected     *)
(* write) does nothing, so any number of calls leaves at most one [DONE]   *)
(* and at most one end().                                                  *)
C13_CloseIdempotent ==
    LET closeCalls == {i \in 1..Len(log) : log[i].op = "close"}
        acted == {i \in closeCalls : log[i].open}
    IN  closeCalls # {} =>
            /\ closed
            /\ \A i \in acted : \A j \in closeCalls : i <= j
            /\ \A i \in acted :
                  /\ log[i + 1].op = "write"
                  /\ log[i + 1].site = "close"
                  /\ log[i + 1].msg = DoneMessage
            /\ ended = Cardinality(acted)
            /\ Count(wire, DoneFrame) =
                  Cardinality({i \in acted : log[i + 1].ret})
            /\ Count(wire, DoneFrame) > 0 => Last(wire) = DoneFrame

\* close() called twice on a sink that was open: one [DONE], one end().
C13_Witness ==
    /\ Cardinality({i \in 1..Len(log) : log[i].op = "close"}) >= 2
    /\ log[1].op = "close" /\ log[1].open
    /\ wire = <<DoneFrame>>
    /\ ended = 1

----------------------------------------------------------------------------
(* What one serialized message looks like, line by line *)

CountNL(text) == Cardinality({i \in 1..Len(text) : text[i] = NL})

\* frame is: the header lines, then one data: line per line of the
\* payload, then a blank line.
SerializedAs(frame, header, payload) ==
    LET L == Split(frame)
        h == Len(header)
        k == CountNL(payload) + 1
    IN  /\ Len(L) = h + k + 2
        /\ SubSeq(L, 1, h) = header
        /\ \A j \in 1..k : StartsWith(L[h + j], DataPrefix)
        /\ Join([j \in 1..k |-> Slice(L[h + j], Len(DataPrefix))]) = payload
        /\ L[h + k + 1] = <<>>
        /\ L[h + k + 2] = <<>>

PayloadOf(data) == IF data.t = "string" THEN data.s ELSE JSONStringify(data)

\* The header with a line for every field the message has.
HeaderOfPresent(msg) ==
    (IF msg.event # Undefined THEN <<EventPrefix \o msg.event[1]>> ELSE <<>>)
    \o (IF msg.id # Undefined THEN <<IdPrefix \o msg.id[1]>> ELSE <<>>)
    \o (IF msg.retry # Undefined
        THEN <<RetryPrefix \o NumberText(msg.retry[1])>> ELSE <<>>)

\* The header with a line for every event and id that is a non-empty
\* string and for every retry that is defined.
HeaderOfNonEmpty(msg) ==
    (IF msg.event \notin {Undefined, Some(<<>>)}
     THEN <<EventPrefix \o msg.event[1]>> ELSE <<>>)
    \o (IF msg.id \notin {Undefined, Some(<<>>)}
        THEN <<IdPrefix \o msg.id[1]>> ELSE <<>>)
    \o (IF msg.retry # Undefined
        THEN <<RetryPrefix \o NumberText(msg.retry[1])>> ELSE <<>>)

(* C15, as claimed: write on an open sink emits an event: line, an id:     *)
(* line and a retry: line, in this order, each exactly when the message    *)
(* has the field, then one data: line per line of the payload (the string  *)
(* itself, or the JSON serialization of a non-string), then a blank line;  *)
(* there are as many data: lines as newlines in the payload plus one.      *)
C15_LineForEveryPresentField ==
    /\ Len(wire) = Len(log)
    /\ \A i \in 1..Len(log) :
          /\ log[i].op = "write" /\ log[i].ret
          /\ SerializedAs(wire[i], HeaderOfPresent(log[i].msg),
                          PayloadOf(log[i].msg.data))

(* C15, amended: as claimed, except that the event: and id: lines are      *)
(* emitted exactly when the field is a non-empty string (an empty string   *)
(* is left out like an absent field), while the retry: line is emitted     *)
(* exactly when retry is defined, 0 included.                              *)
C15_LineForEveryNonEmptyField ==
    /\ Len(wire) = Len(log)
    /\ \A i \in 1..Len(log) :
          /\ log[i].op = "write" /\ log[i].ret
          /\ SerializedAs(wire[i], HeaderOfNonEmpty(log[i].msg),
                          PayloadOf(log[i].msg.data))

\* A message with an event, an empty id, retry 0 and a payload of two lines
\* was serialized.
C15_Witness ==
    \E i \in 1..Len(log) :
        /\ log[i].msg.event = Some(ErrorName)
        /\ log[i].msg.id = Some(<<>>)
        /\ log[i].msg.retry = Some(0)
        /\ CountNL(PayloadOf(log[i].msg.data)) = 1
        /\ Len(Split(wire[i])) = 6

----------------------------------------------------------------------------
(* C16: startKeepAlive pings only while the sink is open.  A ping is       *)
(* written only by a tick of the live timer that finds the sink open, and  *)
(* leaves the timer running; a tick that finds the sink closed writes      *)
(* nothing and clears the timer; once the timer is cleared (by that tick   *)
(* or by the returned cancel function) it stays cleared and no further     *)
(* ping is written.                                                        *)
C16_PingsOnlyWhileOpen ==
    [][LET added == (Len(log) + 1)..Len(log')
           pinged == \E i \in added :
                        log'[i].op = "comment" /\ log'[i].text = PingText
           selfCleared == \E i \in added :
                             log'[i] = [op |-> "clearInterval", by |-> "tick"]
       IN  /\ pinged => (timer = "active" /\ ~closed /\ timer' = "active")
           /\ selfCleared =>
                 (timer = "active" /\ closed /\ timer' = "cleared" /\ wire' = wire)
           /\ timer = "cleared" => (timer' = "cleared" /\ ~pinged /\ ~selfCleared)]_vars

\* The timer pinged an open sink, the sink was closed, and the next tick
\* cleared the timer.
C16_Witness ==
    /\ timer = "cleared"
    /\ closed
    /\ \E i, j \in 1..Len(log) :
          /\ i < j
          /\ log[i] = [op |-> "comment", text |-> PingText, ret |-> TRUE]
          /\ log[j] = [op |-> "clearInterval", by |-> "tick"]

----------------------------------------------------------------------------
(* C14: in what one relay call writes to the client, the message whose     *)
(* data is the literal [DONE] occurs only as the final message: at most    *)
(* once, never as the rendering of a forwarded chunk, and with nothing     *)
(* written after it.                                                       *)
C14_DoneOnlyLast ==
    /\ \A i \in 1..Len(wire) : wire[i] = DoneFrame => i = Len(wire)
    /\ \A i \in 1..Len(log) :
          (log[i].op = "write" /\ log[i].site \in {"loop", "flush"}) =>
              Frame(log[i].msg) # DoneFrame

----------------------------------------------------------------------------
(* Reading a classification *)

Classified == complexity # "unset"
ScoreNow == Score(messages, bodyTools, system)

\* The last message for which P holds, 0 if there is none
LastWhere(msgs, P(_)) ==
    IF \E i \in 1..Len(msgs) : P(msgs[i])
    THEN CHOOSE i \in 1..Len(msgs) :
            P(msgs[i]) /\ \A j \in (i + 1)..Len(msgs) : ~P(msgs[j])
    ELSE 0

HasNonEmptyText(msg) == extractSingleMessageText(msg) # <<>>
HasNonBlankText(msg) == Trim(extractSingleMessageText(msg)) # <<>>

\* msg with `text` in place of its text: the string, or every text block
WithText(msg, text) ==
    IF msg.content.t = "string" THEN TextMessage(text)
    ELSE IF msg.content.t = "array"
    THEN BlockMessage([i \in 1..Len(msg.content.blocks) |->
            IF msg.content.blocks[i].type = "text" THEN TextBlock(text)
            ELSE msg.content.blocks[i]])
    ELSE msg

\* Histories of text-only messages to put in front of a history
TextOnlyMessages ==
    { TextMessage(<<"calculate", " ", Fence>>), TextMessage(<<" ">>),
      BlockMessage(<<TextBlock(<<"first", " ", "then">>), TextBlock(<<"refactor">>)>>) }
TextOnlyHistories ==
    { <<m>> : m \in TextOnlyMessages }
    \cup { << TextMessage(<<"calculate", " ", Fence>>),
             BlockMessage(<<TextBlock(<<"first", " ", "then">>), TextBlock(<<"refactor">>)>>) >> }

\* The tier does not depend on what comes before message k.
TierIgnoresBefore(k) ==
    /\ \A i \in 1..(k - 1) : \A text \in Texts :
          classifyComplexity([messages EXCEPT ![i] = WithText(@, text)],
                             bodyTools, system) = complexity
    /\ \A before \in TextOnlyHistories :
          classifyComplexity(before \o messages, bodyTools, system) = complexity

(* C17: the score is mapped to the tier by fixed thresholds: 0..2 simple,  *)
(* 3 and 4 moderate, 5 or more complex.                                    *)
C17_Thresholds ==
    Classified =>
        LET score == ScoreNow
        IN  /\ score >= 0
            /\ score \in 0..2 <=> complexity = "simple"
            /\ score \in 3..4 <=> complexity = "moderate"
            /\ score >= 5 <=> complexity = "complex"

\* A request that scores exactly 3, one point above simple.
C17_Witness == Classified /\ ScoreNow = 3 /\ complexity = "moderate"

(* C18, as claimed: the single message whose text is the fenced code block *)
(* of const x = 1; with no tools and no system prompt is moderate.         *)
C18_FencedCodeIsModerate ==
    (Classified /\ messages = <<TextMessage(FencedCode)>>
       /\ ToolCount(bodyTools) = 0 /\ system = Undefined) =>
        complexity = "moderate"

(* C18, amended: that message scores 2, for the code pattern alone, and is *)
(* simple.                                                                 *)
C18_FencedCodeIsSimple ==
    (Classified /\ messages = <<TextMessage(FencedCode)>>
       /\ ToolCount(bodyTools) = 0 /\ system = Undefined) =>
        /\ ScoreNow = 2
        /\ complexity = "simple"

C18_Witness ==
    /\ Classified /\ messages = <<TextMessage(FencedCode)>>
    /\ bodyTools = Undefined /\ system = Undefined
    /\ complexity = "simple"

(* C19, as claimed: the text signals are those of the last message that    *)
(* has non-empty text, the current text is empty if there is none, and     *)
(* with such a message in the history the tier does not change when the    *)
(* text of an earlier message is replaced or text-only messages are put in *)
(* front.                                                                  *)
C19_LastNonEmptyText ==
    Classified =>
        LET k == LastWhere(messages, HasNonEmptyText)
        IN  /\ k = 0 => findLastUserText(messages) = <<>>
            /\ k > 0 =>
                  /\ CurrentTurnSignals(ToLowerCase(findLastUserText(messages))) =
                        CurrentTurnSignals(ToLowerCase(extractSingleMessageText(messages[k])))
                  /\ TierIgnoresBefore(k)

(* C19, amended: as claimed, with the last message whose text is not blank *)
(* (not empty once leading and trailing white space is trimmed); a message *)
(* whose text is only white space is passed over like one without text.    *)
C19_LastNonBlankText ==
    Classified =>
        LET k == LastWhere(messages, HasNonBlankText)
        IN  /\ findLastUserText(messages) =
                  (IF k = 0 THEN <<>> ELSE extractSingleMessageText(messages[k]))
            /\ k > 0 => TierIgnoresBefore(k)

\* A message that mixes two text blocks with a tool result, after a message
\* with a computation keyword: only the last message's words are scored.
C19_Witness ==
    /\ Classified
    /\ Len(messages) = 2
    /\ messages[1] = TextMessage(<<"calculate">>)
    /\ messages[2] = BlockMessage(<<TextBlock(<<"create a">>), Block("tool_result"),
                                    TextBlock(<<"analyze">>)>>)
    /\ bodyTools = Undefined /\ system = Undefined
    /\ complexity = "moderate"

(* C20: the recent-activity signal is +1 exactly when the last six         *)
(* messages together hold three or more tool_result blocks.                *)
C20_ThreeRecentBlocks ==
    LET recent == RecentMessages(messages)
        blocksOf(i) ==
            IF isContentBlockArray(recent[i].content)
            THEN {<<i, j>> : j \in {j \in 1..Len(recent[i].content.blocks) :
                                      recent[i].content.blocks[j].type = "tool_result"}}
            ELSE {}
        toolResultBlocks == Cardinality(UNION {blocksOf(i) : i \in 1..Len(recent)})
    IN  RecentSignal(messages) = (IF toolResultBlocks >= 3 THEN 1 ELSE 0)

----------------------------------------------------------------------------
(* C21: the tool signals depend only on the length n of the tool list and  *)
(* on whether some message of the whole history holds a tool_use or        *)
(* tool_result block: 2 when n > 0 or there is such a block, plus 1 when   *)
(* n >= 5, plus 1 when n >= 15; the list alone gives 0, 2, 3 and 4 for n   *)
(* = 0, 1..4, 5..14 and 15 or more.                                        *)
C21_ToolSignals ==
    LET n == IF bodyTools # Undefined /\ bodyTools[1].isArray
             THEN bodyTools[1].length ELSE 0
        anyToolBlock ==
            \E i \in 1..Len(messages) :
                /\ messages[i].content.t = "array"
                /\ \E j \in 1..Len(messages[i].content.blocks) :
                      messages[i].content.blocks[j].type \in {"tool_use", "tool_result"}
        listAlone == CASE n = 0 -> 0
                       [] n \in 1..4 -> 2
                       [] n \in 5..14 -> 3
                       [] n >= 15 -> 4
    IN  /\ ToolSignals(messages, bodyTools) =
              (IF n > 0 \/ anyToolBlock THEN 2 ELSE 0)
              + (IF n >= 5 THEN 1 ELSE 0) + (IF n >= 15 THEN 1 ELSE 0)
        /\ ~anyToolBlock => ToolSignals(messages, bodyTools) = listAlone
        /\ (Classified /\ ~anyToolBlock /\ system = Undefined
              /\ findLastUserText(messages) \in {<<>>, <<"hello">>}) =>
                 complexity = TierOf(listAlone)

\* Fourteen tools and nothing else: 3 points, moderate.
C21_Witness ==
    /\ Classified
    /\ messages = <<TextMessage(<<"hello">>)>>
    /\ bodyTools = Tools(TRUE, 14)
    /\ ToolSignals(messages, bodyTools) = 3
    /\ complexity = "moderate"

\* C22: with no other signal, a current turn of at most 8000 characters scores
\* 0, one of 8001 to 20000 characters scores 1 and is simple, and one of 20001
\* characters or more scores 3 and is moderate.
C22_LengthSignal ==
    LET turn == findLastUserText(messages)
        characters == StringLength(turn)
        noOtherSignal ==
            /\ CodeSignal(ToLowerCase(turn)) = 0
            /\ KeywordSignals(ToLowerCase(turn)) = 0
            /\ ToolSignals(messages, bodyTools) = 0
            /\ RecentSignal(messages) = 0
            /\ SystemSignal(system) = 0
        expected == IF characters <= 8000 THEN 0 ELSE IF characters <= 20000 THEN 1 ELSE 3
    IN  (Classified /\ noOtherSignal) =>
            /\ ScoreNow = expected
            /\ complexity = TierOf(expected)

\* The tiers in their order
TierRank(tier) == CASE tier = "simple" -> 0 [] tier = "moderate" -> 1 [] tier = "complex" -> 2

\* msg with one more piece of text: at the end of the string, or as one more
\* text block
AppendText(msg, piece) ==
    IF msg.content.t = "string" THEN TextMessage(msg.content.s \o <<piece>>)
    ELSE BlockMessage(Append(msg.content.blocks, TextBlock(<<piece>>)))

\* The requests that differ from the one classified by one more signal: a
\* piece added to the current turn (a first turn if there is none), a longer
\* system prompt, more tools.
AddedPieces == { Fence, "calculate", "then", "x*12000" }
OneMoreSignal ==
    LET k == LastWhere(messages, HasNonBlankText)
        sys == IF system = Undefined THEN <<>> ELSE system[1]
    IN  { << IF k = 0 THEN Append(messages, TextMessage(<<piece>>))
             ELSE [messages EXCEPT ![k] = AppendText(@, piece)],
             bodyTools, system >> : piece \in AddedPieces }
        \cup { << messages, bodyTools, Some(sys \o longer) >> :
                  longer \in { <<"x*12000", "x">>, <<"x*12000", "x*12000", "x*8000", "x">> } }
        \cup { << messages, Tools(TRUE, ToolCount(bodyTools) + more), system >> :
                  more \in {1, 15} }

\* C23: the score is monotone in every signal: one more signal (a code fence
\* or a keyword added to the current turn, a longer current turn or system
\* prompt, more tools) never lowers the score nor the tier.
C23_Monotone ==
    Classified =>
        LET before == ScoreNow
        IN  \A request \in OneMoreSignal :
                LET after == Score(request[1], request[2], request[3])
                IN  /\ after >= before
                    /\ TierRank(TierOf(after)) >= TierRank(complexity)

\* A simple request that one more keyword makes moderate and more tools
\* make complex
C23_Witness ==
    /\ Classified /\ complexity = "simple" /\ ScoreNow = 2
    /\ LastWhere(messages, HasNonBlankText) > 0
    /\ \E request \in OneMoreSignal :
          /\ request[1] # messages
          /\ classifyComplexity(request[1], request[2], request[3]) = "moderate"
    /\ \E request \in OneMoreSignal :
          /\ request[2] # bodyTools
          /\ classifyComplexity(request[1], request[2], request[3]) = "complex"

\* The lower-cased current turn, and how many of the pieces of a text are
\* among `words`
CurrentTextNow == ToLowerCase(findLastUserText(messages))
Hits(text, words) == Cardinality({i \in 1..Len(text) : text[i] \in words})
Once(text, words, weight) == IF Hits(text, words) > 0 THEN weight ELSE 0

\* C24: each keyword category adds its weight once however many of its words
\* occur in the current turn, and the categories add up: 'review' and
\* 'analyze' give +1, and 'architect' one more.
C24_CategoryOnce ==
    Classified =>
        LET text == CurrentTextNow
            score == ScoreNow
        IN  /\ score = CodeSignal(text)
                        + Once(text, AnalyticalWords, 1) + Once(text, ComputationWords, 2)
                        + Once(text, CreativeWords, 1) + Once(text, EngineeringWords, 1)
                        + (IF FirstThenPattern(text) THEN 1 ELSE 0)
                        + TokenSignal(Tokens(StringLength(text)))
                        + ToolSignals(messages, bodyTools) + RecentSignal(messages)
                        + SystemSignal(system)
            /\ (bodyTools = Undefined /\ system = Undefined) =>
                  /\ messages = <<TextMessage(<<"review", " ", "analyze">>)>> => score = 1
                  /\ messages = <<TextMessage(<<"review", " ", "analyze", " ", "architect">>)>>
                        => score = 2

\* Two analytical words and an engineering word were classified: score 2.
C24_Witness ==
    /\ Classified
    /\ Hits(CurrentTextNow, AnalyticalWords) = 2
    /\ Hits(CurrentTextNow, EngineeringWords) = 1
    /\ bodyTools = Undefined /\ system = Undefined
    /\ ScoreNow = 2 /\ complexity = "simple"

Tiers == {"simple", "moderate", "complex"}

Finished == outcome \notin {"idle", "looping"}
CarriesModel(chunk) == chunk.kind = "object" /\ chunk.model.t = "string"
HasFirstChoice(chunk) ==
    chunk.kind = "object" /\ chunk.choices = "one" /\ chunk.choice = "object"
CarriesContent(chunk) ==
    HasFirstChoice(chunk) /\ chunk.delta = "object" /\ chunk.content.t = "string"
CarriesFinishReason(chunk) == HasFirstChoice(chunk) /\ chunk.finish_reason.t = "string"
CarriesUsage(chunk) ==
    /\ chunk.kind = "object" /\ chunk.usage = "object"
    /\ chunk.prompt_tokens.t = "number" /\ chunk.completion_tokens.t = "number"

RECURSIVE ReferenceContent(_)
ReferenceContent(list) ==
    IF list = <<>> THEN <<>>
    ELSE (IF CarriesContent(list[1]) THEN list[1].content.s ELSE <<>>)
         \o ReferenceContent(Slice(list, 1))

(* C26: the result equals the left-to-right reduction over the chunks:     *)
(* content is the concatenation of every choices[0].delta.content string,  *)
(* model and finish_reason are those of the last chunk that carries such a *)
(* string, usage is that of the last chunk with numeric prompt_tokens and  *)
(* completion_tokens, total_tokens being their sum when absent.            *)
C26_ReferenceReduction ==
    Finished =>
        LET m == LastWhere(received, CarriesModel)
            f == LastWhere(received, CarriesFinishReason)
            u == LastWhere(received, CarriesUsage)
        IN  /\ outcome = "returned"
            /\ running.content = ReferenceContent(received)
            /\ running.model = (IF m = 0 THEN Undefined ELSE Some(received[m].model.s))
            /\ running.finish_reason
                  = (IF f = 0 THEN Undefined ELSE Some(received[f].finish_reason.s))
            /\ (u = 0) = (running.usage = NoUsage)
            /\ u # 0 =>
                  /\ running.usage[1].prompt_tokens = received[u].prompt_tokens.n
                  /\ running.usage[1].completion_tokens = received[u].completion_tokens.n
                  /\ received[u].total_tokens.t = "undefined" =>
                        running.usage[1].total_tokens
                          = VNumber(received[u].prompt_tokens.n
                                    + received[u].completion_tokens.n)
                  /\ received[u].total_tokens.t = "number" =>
                        running.usage[1].total_tokens = received[u].total_tokens

(* C27: the call never fails: a chunk that fails a shape check is skipped  *)
(* without an error and without changing the fields it does not validly    *)
(* carry.                                                                  *)
C27_SkipsWithoutError ==
    [][ /\ outcome' \in {"looping", "returned"}
        /\ next' = next + 1 =>
              LET chunk == received[next]
              IN  /\ ~CarriesModel(chunk) => running'.model = running.model
                  /\ ~CarriesContent(chunk) => running'.content = running.content
                  /\ ~CarriesFinishReason(chunk) =>
                        running'.finish_reason = running.finish_reason
                  /\ ~CarriesUsage(chunk) => running'.usage = running.usage
      ]_vars

\* The fragments that cutting `text` at the points `at` gives
CutAt(text, at) ==
    [i \in 1..(Len(at) + 1) |->
        SubSeq(text, (IF i = 1 THEN 0 ELSE at[i - 1]) + 1,
                     IF i > Len(at) THEN Len(text) ELSE at[i])]
Cuts(text) ==
    { CutAt(text, at) :
        at \in { a \in UNION { [1..n -> 0..Len(text)] : n \in 0..MaxChunks } :
                    \A i \in 1..(Len(a) - 1) : a[i] <= a[i + 1] } }

(* C28: aggregation is splitting-invariant: whatever the way a string is   *)
(* cut into delta fragments carried by chunks in order, empty fragments    *)
(* included, the content returned is that string.                          *)
C28_SplittingInvariant ==
    (outcome = "returned" /\ \A i \in 1..Len(received) : CarriesContent(received[i])) =>
        LET text == ReferenceContent(received)
        IN  /\ running.content = text
            /\ \A cut \in Cuts(text) :
                  LET result == aggregateStreamingResponse(
                                    [i \in 1..Len(cut) |-> DeltaChunk(cut[i])])
                  IN  result.error = "" /\ result.value[1].content = text

\* "Hello" arrived as "He", "" and "llo" and was returned whole.
C28_Witness ==
    /\ outcome = "returned"
    /\ Len(received) = 3
    /\ \A i \in 1..3 : CarriesContent(received[i])
    /\ received[1].content.s = <<"He">> /\ received[2].content.s = <<>>
    /\ received[3].content.s = <<"llo">>
    /\ running.content = <<"He", "llo">>

(* C29: telemetry is off until the user opts in: isTelemetryEnabled()      *)
(* returns false on a fresh install, and true only after enableTelemetry() *)
(* with no disableTelemetry() after it.                                    *)
C29_TelemetryOffUntilOptIn ==
    returned.op = "isTelemetryEnabled" =>
        /\ returned.value \in {Some(TRUE), Some(FALSE)}
        /\ returned.value = Some(TRUE) => optIn = "enabled"

(* C30: the device ID is generated once: while the file is neither deleted *)
(* nor corrupted, every getDeviceId() returns the same value, whatever the *)
(* calls of the configuration module and of the Swarm client's setApiKey   *)
(* in between.                                                             *)
C30_DeviceIdGeneratedOnce == Cardinality(deviceIds) <= 1

----------------------------------------------------------------------------
(* C34: once the client has disconnected and the sink is closed, the relay *)
(* stops reading the upstream promptly: a read that returns while the sink *)
(* is closed is the last read of the call, whatever lines it carried       *)
(* (non-data lines, [DONE] lines and malformed frames included).           *)
C34_StopsReadingOnceClosed ==
    [][(closed /\ pc = "read" /\ pos' > pos) => pc' # "read"]_vars

(* C35: a result with success true means that the sink accepted every      *)
(* chunk of the returned sequence (one write per chunk, each returning     *)
(* true) and afterwards received the [DONE] message; a client disconnect   *)
(* before the return therefore always gives success false.                 *)
C35_SuccessMeansDelivered ==
    (Returned /\ Result.success) =>
        /\ Len(ChunkWrites) = Len(Result.chunks)
        /\ \A i \in 1..Len(ChunkWrites) : ChunkWrites[i].ret
        /\ \E i \in 1..Len(log) : log[i].op = "write" /\ log[i].site = "close"

\* The payload a client reads back from a frame: its data: lines, joined.
DataOfFrame(frame) ==
    LET dataLines == SelectSeq(Split(frame), LAMBDA l : StartsWith(l, DataPrefix))
    IN  Join([j \in 1..Len(dataLines) |-> Slice(dataLines[j], Len(DataPrefix))])

(* C37: forwarding preserves the payload: for every chunk the relay hands  *)
(* to the sink, the data: lines SSEWriter writes for it, joined and parsed *)
(* as JSON, give back the chunk, whatever JSON type the chunk has.         *)
C37_PayloadPreserved ==
    \A i \in 1..Len(log) :
        (log[i].op = "write" /\ log[i].site \in {"loop", "flush"}) =>
            /\ JSONValid(DataOfFrame(Frame(log[i].msg)))
            /\ JSONParse(DataOfFrame(Frame(log[i].msg))) = log[i].msg.data

\* The sink refused a chunk: a write of a forwarded chunk returned false.
ChunkRefused == \E i \in 1..Len(ChunkWrites) : ~ChunkWrites[i].ret

\* The writes of an error event
ErrorWrites ==
    SelectSeq(log, LAMBDA e : e.op = "write" /\ e.msg.event = Some(ErrorName))

(* C38: in one relay call the completion callback and the error callback   *)
(* are each invoked at most once and never both; the completion callback   *)
(* is invoked exactly when the call returns success true; the error        *)
(* callback only on the upstream-rejected, no-body and exception paths;    *)
(* and when the client has disconnected (the sink refused a chunk) neither *)
(* is invoked and no error event is written.                               *)
C38_CallbackDiscipline ==
    /\ Len(Calls("onComplete")) + Len(Calls("onError")) <= 1
    /\ (Returned => (Len(Calls("onComplete")) = 1 <=> Result.success))
    /\ (~Returned => Calls("onComplete") = <<>> /\ Calls("onError") = <<>>)
    /\ (Calls("onError") # <<>> => exit \in {"rejected", "nobody", "caught"})
    /\ (ChunkRefused =>
            /\ Calls("onComplete") = <<>>
            /\ Calls("onError") = <<>>
            /\ ErrorWrites = <<>>)

\* What one relay call does to a fresh, accepting sink when the whole text
\* arrives in a single read.
FreshSink ==
    [chunks |-> <<>>, closed |-> FALSE, wire |-> <<>>, ended |-> 0,
     log |-> <<>>, ok |-> TRUE, stop |-> FALSE]
OneRead(text) ==
    LET lines == Split(text)
    IN  Drained(ProcessLines(FreshSink, Front(lines)), Retained(lines))

\* The sink accepted every write of the call, the final [DONE] included.
SinkAccepted == AllWritesTrue /\ ClosedWhileOpen

(* C36: the result does not depend on how the upstream text is cut into    *)
(* reads: with a sink that accepts every write, a call that has read the   *)
(* whole text in any number of reads returns the chunks, has made the      *)
(* callback calls and sink writes, in the order, and has put on the wire   *)
(* the frames, of the call that gets the whole text in a single read, and  *)
(* returns success true like it.                                           *)
C36_PartitionIndependent ==
    (Returned /\ exit = "drained" /\ SinkAccepted) =>
        LET one == OneRead(upstream)
        IN  /\ Result.chunks = one.chunks
            /\ Result.success
            /\ log = one.log
            /\ wire = one.wire

\* C36's case: a text of three lines or more with two chunks, the last of
\* them left unterminated in the buffer, drained in reads that spanned a
\* tick of the clock.
C36_Witness ==
    /\ Returned /\ exit = "drained" /\ SinkAccepted
    /\ Len(Split(upstream)) >= 3
    /\ Len(Result.chunks) = 2
    /\ buffer # <<>>
    /\ ttftMs = <<0>> /\ now = 1

----------------------------------------------------------------------------
\* A message written by the user that has text
IsUserText(msg) == msg.role = "user" /\ HasNonBlankText(msg)

(* C33: the current-turn text that classifyComplexity scores is the text   *)
(* of the most recent user-authored message that contains text; the text   *)
(* of a message of another role, such as a trailing assistant message, is  *)
(* not what the text signals are computed from.                            *)
C33_LastUserAuthoredText ==
    Classified =>
        LET k == LastWhere(messages, IsUserText)
        IN  findLastUserText(messages) =
                (IF k = 0 THEN <<>> ELSE extractSingleMessageText(messages[k]))

----------------------------------------------------------------------------
\* The request has no system prompt, and its current turn gets no point
\* from the code pattern, the keywords, the multi-step marker or the length.
NoSystemPrompt == system \in {Undefined, Some(<<>>)}
SignalFreeTurn == CurrentTurnSignals(CurrentTextNow) = 0
RecentToolResults ==
    Cardinality({i \in 1..Len(messages) :
                    /\ i > Len(messages) - 6
                    /\ HasBlock(messages[i], {"tool_result"})})

(* C39, as claimed: a current turn that triggers none of the current-turn  *)
(* signals, classified without a system prompt, is never complex, whatever *)
(* the history, the tool list and the tool blocks in the history.          *)
C39_NeverComplex ==
    (Classified /\ NoSystemPrompt /\ SignalFreeTurn) => complexity # "complex"

(* C39, amended: for such a turn the tier is that of the sum of the tool   *)
(* signals and the recent-activity signal, a sum of at most 5 whatever the *)
(* length of the history, and it is complex exactly when the tool list has *)
(* 15 entries or more and three or more of the last six messages carry a   *)
(* tool_result block; in every other case it is at most moderate.          *)
C39_CappedSessionSignals ==
    (Classified /\ NoSystemPrompt /\ SignalFreeTurn) =>
        LET session == ToolSignals(messages, bodyTools) + RecentSignal(messages)
        IN  /\ complexity = TierOf(session)
            /\ session <= 5
            /\ (complexity = "complex" <=>
                    ToolCount(bodyTools) >= 15 /\ RecentToolResults >= 3)

\* A greeting after three tool results, with a list of fifteen tools: complex.
C39_Witness ==
    /\ Classified
    /\ messages = AgenticTurn
    /\ bodyTools = Tools(TRUE, 15) /\ system = Undefined
    /\ SignalFreeTurn
    /\ complexity = "complex"

----------------------------------------------------------------------------
(* C40: a key stored with the configuration module's setApiKey(key) is the *)
(* key the Swarm client reads: a getApiKey() of the client right after it  *)
(* returns key, and a hasBrainAccess() right after it is true for a Pro    *)
(* key when offline mode is off; the client's own setApiKey(key) followed  *)
(* by its getApiKey() returns key, and the client's setApiKey changes no   *)
(* other field of the file.                                                *)
C40_KeyRoundTrip ==
    [][ /\ (returned.op = "setApiKey" /\ returned'.op = "swarm.getApiKey") =>
               /\ configFile.config.api_key # Undefined
               /\ returned'.value = configFile.config.api_key
        /\ (/\ returned.op = "setApiKey" /\ returned'.op = "hasBrainAccess"
            /\ ~offline
            /\ \/ StartsWith(configFile.config.api_key[1], <<LivePrefix>>)
               \/ StartsWith(configFile.config.api_key[1], <<TrialPrefix>>)) =>
               returned'.value = Some(TRUE)
        /\ (returned.op = "swarm.setApiKey" /\ returned'.op = "swarm.getApiKey") =>
               /\ configFile.config.apiKey # Undefined
               /\ returned'.value = configFile.config.apiKey
        /\ (returned'.op = "swarm.setApiKey" /\ configFile.state = "valid") =>
               configFile'.config =
                   [configFile.config EXCEPT !.apiKey = configFile'.config.apiKey]
      ]_vars

----------------------------------------------------------------------------
\* The Swarm API was unavailable to the call: no access, or no response
\* with success true.
BrainUnavailable ==
    \/ offline
    \/ ~hasBrainAccess(offline, configFile, envKey)
    \/ reply = NoResponse
    \/ ~reply.ok
    \/ reply.body.json # "object"
    \/ ~reply.body.success

(* C32: getBrainRouting always resolves; when offline mode is on, no Pro   *)
(* key is configured, the request timed out, the response is not ok, the   *)
(* call threw or the response has success false, it resolves with the      *)
(* current model and isBrain false; isBrain is true only when a response   *)
(* with success true was received, and then model is its recommendedModel. *)
C32_AlwaysResolves ==
    /\ routing.state # "rejected"
    /\ brainPc = "settled" =>
          /\ routing.state = "resolved"
          /\ BrainUnavailable =>
                /\ routing.model = Some(currentModel)
                /\ ~routing.isBrain
          /\ routing.isBrain =>
                /\ reply.ok /\ reply.body.success
                /\ routing.model = reply.body.recommendedModel

----------------------------------------------------------------------------
\* The value every method of the no-op handle returns, but for the fields
\* of the status that repeat the configuration
NoopValue(op) ==
    CASE op = "sync" -> [NoValue EXCEPT !.synced = "null"]
      [] op = "getStatus" -> [NoValue EXCEPT !.enabled = meshConfig.enabled]
      [] OTHER -> NoValue

(* C31: initMesh never rejects and degrades to a no-op handle: when        *)
(* config.enabled is false, when a mesh package fails to load or when the  *)
(* initialization throws, it resolves with a handle whose captureRequest   *)
(* (like every other method) changes nothing, whose getTips returns an     *)
(* empty list, whose sync resolves to null and whose getStatus reports     *)
(* available false; it resolves with a working handle only when every step *)
(* succeeded, and on a working handle sync resolves to null whenever       *)
(* config.contribute is false.                                             *)
C31_NoopHandle ==
    [][ /\ meshPc' # "rejected"
        /\ (meshPc' \in {"disabled", "unavailable", "failed"} => handle' = "noop")
        /\ (~meshConfig.enabled => meshPc' \in {"idle", "disabled"})
        /\ (handle' = "working" =>
               /\ meshPc' = "ready" /\ meshConfig.enabled
               /\ imported' = MeshPackages /\ store' # "none")
        /\ (handle = "noop" =>
               /\ UNCHANGED <<store, atoms, injector, autoSync, handle>>
               /\ meshReturned' # meshReturned =>
                     meshReturned'.value = NoopValue(meshReturned'.op))
        /\ (/\ handle = "working" /\ ~meshConfig.contribute
            /\ meshReturned'.op = "sync") => meshReturned'.value.synced = "null"
      ]_vars

\* C31's case: the initialization threw after the store was opened, and on
\* the handle returned getStatus was called, after other calls.
C31_Witness ==
    /\ meshPc = "failed" /\ handle = "noop"
    /\ meshConfig.enabled /\ meshConfig.contribute
    /\ store = "open" /\ injector = "running" /\ autoSync = "none"
    /\ atoms = 0
    /\ meshReturned = MeshResult("getStatus", [NoValue EXCEPT !.enabled = TRUE])

====
